---- MODULE Spec2Model ----
(***************************************************************************)
(* A model of the Attio MCP server: the dispatcher (server.py), the five   *)
(* tool groups (tools_*.py), the remote gateway (client.py) and the value  *)
(* extraction and formatting functions (formatting.py).                    *)
(*                                                                         *)
(* Python values are tagged records [t, v]; a str is a sequence of atoms   *)
(* (characters, or indivisible pieces such as an id or a literal of the    *)
(* source); a dict is a function from its keys to values.                  *)
(***************************************************************************)
EXTENDS Integers, Sequences, FiniteSets, TLC

VARIABLES HANDLERS, pc, name, arguments, calls, answers, results, entries,
          by_object, names, input, output

vars == <<HANDLERS, pc, name, arguments, calls, answers, results, entries,
          by_object, names, input, output>>

(***************************************************************************)
(* Python values                                                           *)
(***************************************************************************)
PNone == [t |-> "none", v |-> <<>>]
PStr(s) == [t |-> "str", v |-> s]
PInt(n) == [t |-> "int", v |-> n]
PBool(b) == [t |-> "bool", v |-> b]
PList(s) == [t |-> "list", v |-> s]

RECURSIVE SeqOfSet(_)
\* the elements of a set in a fixed order
SeqOfSet(S) ==
    IF S = {} THEN <<>>
    ELSE LET x == CHOOSE y \in S : TRUE IN <<x>> \o SeqOfSet(S \ {x})

\* a dict: its items v and the order o of its keys (a dict keeps insertion order)
PODict(f, order) == [t |-> "dict", v |-> f, o |-> order]
PDict(f) == PODict(f, SeqOfSet(DOMAIN f))

EmptyDict == [k \in {} |-> PNone]
Lit(a) == PStr(<<a>>)
EmptyStr == PStr(<<>>)

\* bool(x): Python truthiness
Truthy(x) ==
    CASE x.t = "none" -> FALSE
      [] x.t = "str" -> x.v # <<>>
      [] x.t = "int" -> x.v # 0
      [] x.t = "bool" -> x.v
      [] x.t = "dict" -> DOMAIN x.v # {}
      [] x.t = "list" -> x.v # <<>>

\* d.get(k, default) on a dict (a function)
Get(d, k, default) == IF k \in DOMAIN d THEN d[k] ELSE default

\* the outcome of a Python call: a returned value or a raised exception
Ret(x) == [kind |-> "return", value |-> x]
Raise(e, m) == [kind |-> "raise", exc |-> e, msg |-> m]

Digit(d) == <<"0", "1", "2", "3", "4", "5", "6", "7", "8", "9">>[d + 1]

RECURSIVE DecimalDigits(_)
\* str(n) for an int n >= 0
DecimalDigits(n) ==
    IF n < 10 THEN <<Digit(n)>> ELSE DecimalDigits(n \div 10) \o <<Digit(n % 10)>>

RECURSIVE PyRepr(_)
RECURSIVE ReprItems(_, _, _)
\* the items of a dict or a list inside repr()
ReprItems(x, ks, first) ==
    IF ks = <<>> THEN <<>>
    ELSE (IF first THEN <<>> ELSE <<", ">>)
         \o (IF x.t = "dict"
             THEN <<"'", Head(ks), "'", ": ">> \o PyRepr(x.v[Head(ks)])
             ELSE PyRepr(x.v[Head(ks)]))
         \o ReprItems(x, Tail(ks), FALSE)

\* repr(x)
PyRepr(x) ==
    CASE x.t = "none" -> <<"None">>
      [] x.t = "str" -> <<"'">> \o x.v \o <<"'">>
      [] x.t = "int" -> DecimalDigits(x.v)
      [] x.t = "bool" -> IF x.v THEN <<"T", "r", "u", "e">> ELSE <<"F", "a", "l", "s", "e">>
      [] x.t = "dict" -> <<"{">> \o ReprItems(x, x.o, TRUE) \o <<"}">>
      [] x.t = "list" -> <<"[">> \o ReprItems(x, [i \in 1..Len(x.v) |-> i], TRUE) \o <<"]">>

\* str(x): a str is itself, anything else its repr
PyStr(x) == IF x.t = "str" THEN x.v ELSE PyRepr(x)

\* text.startswith(prefix)
StartsWith(text, prefix) ==
    Len(text) >= Len(prefix) /\ SubSeq(text, 1, Len(prefix)) = prefix

Min(S) == CHOOSE i \in S : \A j \in S : i <= j

(***************************************************************************)
(* str methods, on sequences of characters                                 *)
(***************************************************************************)
Uppers ==
    <<"A", "B", "C", "D", "E", "F", "G", "H", "I", "J", "K", "L", "M",
      "N", "O", "P", "Q", "R", "S", "T", "U", "V", "W", "X", "Y", "Z">>

Lowers ==
    <<"a", "b", "c", "d", "e", "f", "g", "h", "i", "j", "k", "l", "m",
      "n", "o", "p", "q", "r", "s", "t", "u", "v", "w", "x", "y", "z">>

Digits == <<"0", "1", "2", "3", "4", "5", "6", "7", "8", "9">>

Range(s) == {s[i] : i \in 1..Len(s)}
IndexOf(c, s) == CHOOSE i \in 1..Len(s) : s[i] = c

LowerChar(c) == IF c \in Range(Uppers) THEN Lowers[IndexOf(c, Uppers)] ELSE c
UpperChar(c) == IF c \in Range(Lowers) THEN Uppers[IndexOf(c, Lowers)] ELSE c
IsLetter(c) == c \in Range(Uppers) \cup Range(Lowers)

\* s.lower()
Lower(s) == [i \in 1..Len(s) |-> LowerChar(s[i])]

\* s.replace(a, b) for one-character a and b
Replace(s, a, b) == [i \in 1..Len(s) |-> IF s[i] = a THEN b ELSE s[i]]

RECURSIVE LStrip(_, _)
\* s.lstrip(c)
LStrip(s, c) == IF s # <<>> /\ Head(s) = c THEN LStrip(Tail(s), c) ELSE s

RECURSIVE RStrip(_, _)
\* s.rstrip(c)
RStrip(s, c) ==
    IF s # <<>> /\ s[Len(s)] = c THEN RStrip(SubSeq(s, 1, Len(s) - 1), c) ELSE s

\* s.strip(c)
Strip(s, c) == RStrip(LStrip(s, c), c)

\* s.capitalize(): the first character upper-cased, the rest lower-cased
Capitalize(s) ==
    [i \in 1..Len(s) |-> IF i = 1 THEN UpperChar(s[i]) ELSE LowerChar(s[i])]

\* s.title(): a letter that follows no letter is upper-cased, any other lower-cased
Title(s) ==
    [i \in 1..Len(s) |->
        IF i = 1 \/ ~IsLetter(s[i - 1]) THEN UpperChar(s[i]) ELSE LowerChar(s[i])]

\* s[:n]
Prefix(s, n) == SubSeq(s, 1, IF Len(s) < n THEN Len(s) ELSE n)

\* the character class [a-z0-9]
IsSlugChar(c) == c \in Range(Lowers) \cup Range(Digits)

RECURSIVE SubNonSlugRuns(_, _)
\* re.sub(r"[^a-z0-9]+", "_", s): inRun says the character before was replaced
SubNonSlugRuns(s, inRun) ==
    IF s = <<>> THEN <<>>
    ELSE IF IsSlugChar(Head(s)) THEN <<Head(s)>> \o SubNonSlugRuns(Tail(s), FALSE)
    ELSE (IF inRun THEN <<>> ELSE <<"_">>) \o SubNonSlugRuns(Tail(s), TRUE)

(***************************************************************************)
(* formatting.py: extract_value, extract_values                            *)
(***************************************************************************)
\* a mis-ordered key list: email_address tried before display_value
ExtractKeyOrder_emailFirst ==
    <<"email_address", "display_value", "full_name", "value", "domain", "phone_number">>

ExtractKeyOrder ==
    <<"display_value", "full_name", "value", "email_address", "domain", "phone_number">>

\* val["option"].get("title", str(val["option"])): .get exists on a dict only
NestedTitle(x) ==
    IF x.t = "dict" THEN Ret(Get(x.v, "title", PStr(PyStr(x))))
    ELSE Raise("AttributeError", <<"'", x.t, "' object has no attribute 'get'">>)

extract_value(val) ==
    LET hit == {i \in 1..Len(ExtractKeyOrder) :
                    /\ ExtractKeyOrder[i] \in DOMAIN val
                    /\ val[ExtractKeyOrder[i]] # PNone}
    IN  IF hit # {} THEN Ret(PStr(PyStr(val[ExtractKeyOrder[Min(hit)]])))
        ELSE IF "option" \in DOMAIN val /\ Truthy(val["option"])
             THEN NestedTitle(val["option"])
        ELSE IF "status" \in DOMAIN val /\ Truthy(val["status"])
             THEN NestedTitle(val["status"])
        ELSE IF "currency_value" \in DOMAIN val /\ val["currency_value"] # PNone
             THEN Ret(PStr(PyStr(Get(val, "currency_code", EmptyStr)) \o <<" ">>
                           \o PyStr(val["currency_value"])))
        ELSE IF "date" \in DOMAIN val /\ val["date"] # PNone
             THEN Ret(PStr(PyStr(val["date"])))
        ELSE IF "target_record_id" \in DOMAIN val /\ Truthy(val["target_record_id"])
             THEN Ret(PStr(<<"[record:">> \o PyStr(val["target_record_id"]) \o <<"]">>))
        ELSE Ret(EmptyStr)

\* one element of a list built in a loop: e before the elements that follow;
\* an exception ends the loop, an empty e is left out
ConsPart(e, rest) ==
    IF e.kind = "raise" THEN e
    ELSE IF rest.kind = "raise" THEN rest
    ELSE IF Truthy(e.value) THEN Ret(<<e.value>> \o rest.value)
    ELSE rest

RECURSIVE ExtractParts(_)
\* [extract_value(v) for v in values if extract_value(v)]
ExtractParts(vs) ==
    IF vs = <<>> THEN Ret(<<>>)
    ELSE ConsPart(extract_value(Head(vs).v), ExtractParts(Tail(vs)))

RECURSIVE JoinFrom(_, _, _)
\* the text of sep.join(parts) from part i on
JoinFrom(sep, parts, i) ==
    IF i > Len(parts) THEN <<>>
    ELSE (IF i = 1 THEN <<>> ELSE sep) \o parts[i].v \o JoinFrom(sep, parts, i + 1)

\* sep.join(parts): every part must be a str
PyJoin(sep, parts) ==
    IF \E i \in 1..Len(parts) : parts[i].t # "str"
    THEN Raise("TypeError", <<"sequence item: expected str instance">>)
    ELSE Ret(PStr(JoinFrom(sep, parts, 1)))

\* a join that forgets the separator's blank
CommaSpace_noBlank == <<",">>

CommaSpace == <<", ">>

\* ", ".join(parts)
JoinParts(parts) ==
    IF parts.kind = "raise" THEN parts ELSE PyJoin(CommaSpace, parts.value)

extract_values(values) ==
    IF ~Truthy(values) THEN Ret(EmptyStr) ELSE JoinParts(ExtractParts(values.v))

(***************************************************************************)
(* formatting.py: records, list entries, notes, tasks                      *)
(***************************************************************************)
\* the character U+2014 (em dash) of the source's literals
EmDash == "<U+2014>"
RightArrow == "<U+2192>"

RECURSIVE JoinSeqs(_, _)
\* sep.join(lines) for a sequence of texts
JoinSeqs(sep, lines) ==
    IF lines = <<>> THEN <<>>
    ELSE IF Len(lines) = 1 THEN lines[1]
    ELSE lines[1] \o sep \o JoinSeqs(sep, Tail(lines))

\* the characters of an attribute slug (a dict key of the model)
Spelling(attr) ==
    CASE attr = "stage" -> <<"s", "t", "a", "g", "e">>
      [] attr = "next_step" -> <<"n", "e", "x", "t", "_", "s", "t", "e", "p">>
      [] attr = "deal-size" -> <<"d", "e", "a", "l", "-", "s", "i", "z", "e">>
      [] attr = "domains" -> <<"d", "o", "m", "a", "i", "n", "s">>
      [] attr = "owner" -> <<"o", "w", "n", "e", "r">>
      [] attr = "first_name" -> <<"f", "i", "r", "s", "t", "_", "n", "a", "m", "e">>
      [] attr = "record_id" -> <<"r", "e", "c", "o", "r", "d", "_", "i", "d">>
      [] attr = "entry_id" -> <<"e", "n", "t", "r", "y", "_", "i", "d">>
      [] attr = "created_by" -> <<"c", "r", "e", "a", "t", "e", "d", "_", "b", "y">>
      [] attr = "created_at" -> <<"c", "r", "e", "a", "t", "e", "d", "_", "a", "t">>
      [] attr = "contact" -> <<"c", "o", "n", "t", "a", "c", "t">>
      [] OTHER -> <<attr>>

\* attr.replace("_", " ").replace("-", " ").title()
Label(attr) == Title(Replace(Replace(Spelling(attr), "_", " "), "-", " "))

\* lines.append(prefix + line) before the lines that follow: an exception ends
\* the loop
ConsText(prefix, line, rest) ==
    IF line.kind = "raise" THEN line
    ELSE IF rest.kind = "raise" THEN rest
    ELSE Ret(<<prefix \o line.value.v>> \o rest.value)

\* sep.join(lines)
JoinedBy(sep, lines) ==
    IF lines.kind = "raise" THEN lines ELSE Ret(PStr(JoinSeqs(sep, lines.value)))

\* "\n".join([head] + lines)
Headed(head, lines) ==
    IF lines.kind = "raise" THEN lines
    ELSE Ret(PStr(JoinSeqs(<<"\n">>, <<head>> \o lines.value)))

\* name or '(unnamed)'
OrUnnamed(nm) == IF Truthy(nm) THEN nm.v ELSE <<"(unnamed)">>

\* a loop that stops at the first key that is present, whatever it extracts to
OrNext_presentWins(e, rest) == e

\* if name: break
OrNext(e, rest) == IF e.kind = "raise" \/ Truthy(e.value) THEN e ELSE rest

RECURSIVE FirstExtraction(_, _)
\* for key in keys: if key in values: name = extract_values(values[key]); if name: break
FirstExtraction(values, keys) ==
    IF keys = <<>> THEN Ret(EmptyStr)
    ELSE IF Head(keys) \notin DOMAIN values THEN FirstExtraction(values, Tail(keys))
    ELSE OrNext(extract_values(values[Head(keys)]), FirstExtraction(values, Tail(keys)))

\* x = d.get(outer, {}); if isinstance(x, dict): x = x.get(inner, str(x))
NestedId(d, outer, inner) ==
    LET x == Get(d, outer, PDict(EmptyDict))
    IN  IF x.t = "dict" THEN Get(x.v, inner, PStr(PyStr(x))) ELSE x

singular_map(object_type) ==
    CASE object_type = <<"c", "o", "m", "p", "a", "n", "i", "e", "s">> ->
            <<"C", "o", "m", "p", "a", "n", "y">>
      [] object_type = <<"p", "e", "o", "p", "l", "e">> -> <<"P", "e", "r", "s", "o", "n">>
      [] object_type = <<"d", "e", "a", "l", "s">> -> <<"D", "e", "a", "l">>
      [] OTHER -> Capitalize(RStrip(object_type, "s"))

\* a test that lets record references through
Shown_recordReferencesToo(display) == Truthy(display)

\* if display and not display.startswith("[record:")
Shown(display) == Truthy(display) /\ ~StartsWith(display.v, <<"[record:">>)

RECURSIVE AttributeLines(_, _, _, _, _)
RECURSIVE NextAttribute(_, _, _, _, _, _)
\* the body of the loop for the attribute Head(keys), whose display is given
NextAttribute(values, keys, skip_attrs, indent, acc, display) ==
    IF display.kind = "raise" THEN display
    ELSE AttributeLines(values, Tail(keys), skip_attrs, indent,
             IF Shown(display.value)
             THEN Append(acc, indent \o Label(Head(keys)) \o <<": ">> \o display.value.v)
             ELSE acc)

\* for attr, vals in values.items(): the line (or part) of every attribute that
\* is not skipped and whose display is neither empty nor a record reference
AttributeLines(values, keys, skip_attrs, indent, acc) ==
    IF keys = <<>> THEN Ret(acc)
    ELSE IF Head(keys) \in skip_attrs
         THEN AttributeLines(values, Tail(keys), skip_attrs, indent, acc)
    ELSE NextAttribute(values, keys, skip_attrs, indent, acc,
                       extract_values(values[Head(keys)]))

\* format_record from line 69 on: the first line, then the attribute loop
RecordText(values, record_id, header, nm) ==
    IF nm.kind = "raise" THEN nm
    ELSE JoinedBy(<<"\n">>,
             AttributeLines(values.v, values.o, {"name", "full_name", "record_id"},
                            <<"  ">>,
                            <<header \o <<": ">> \o OrUnnamed(nm.value) \o <<" (ID: ">>
                                  \o PyStr(record_id) \o <<")">>>>))

format_record(record, object_type) ==
    RecordText(Get(record, "values", PDict(EmptyDict)),
               NestedId(record, "id", "record_id"),
               IF Truthy(object_type) THEN singular_map(object_type.v) ELSE <<"Record">>,
               FirstExtraction(Get(record, "values", PDict(EmptyDict)).v,
                               <<"name", "full_name", "first_name">>))

\* format_record_short from line 106 on
ShortText(record_id, nm, secondary) ==
    IF nm.kind = "raise" THEN nm
    ELSE IF secondary.kind = "raise" THEN secondary
    ELSE Ret(PStr(JoinSeqs(<<" ">>,
             <<OrUnnamed(nm.value)>>
             \o (IF Truthy(secondary.value)
                 THEN <<<<"(">> \o secondary.value.v \o <<")">>>> ELSE <<>>)
             \o <<<<EmDash, " ID: ">> \o PyStr(record_id)>>)))

\* a summary that looks for the secondary identifier from the last key to the first
format_record_short_lastKeyFirst(record) ==
    ShortText(NestedId(record, "id", "record_id"),
              FirstExtraction(Get(record, "values", PDict(EmptyDict)).v,
                              <<"name", "full_name", "first_name">>),
              FirstExtraction(Get(record, "values", PDict(EmptyDict)).v,
                              <<"primary_email_address", "email_addresses", "domains",
                                "primary_domain">>))

format_record_short(record) ==
    ShortText(NestedId(record, "id", "record_id"),
              FirstExtraction(Get(record, "values", PDict(EmptyDict)).v,
                              <<"name", "full_name", "first_name">>),
              FirstExtraction(Get(record, "values", PDict(EmptyDict)).v,
                              <<"primary_domain", "domains", "email_addresses",
                                "primary_email_address">>))

\* name = record_names.get(parent_record_id, "") if both are given, else ""
ResolvedName(record_names, parent_record_id) ==
    IF DOMAIN record_names # {} /\ Truthy(parent_record_id)
    THEN Get(record_names, parent_record_id.v, EmptyStr)
    ELSE EmptyStr

\* the raw id whatever the lookup gave
NameOrId_idOnly(nm, parent_record_id) == parent_record_id

\* name or parent_record_id
NameOrId(nm, parent_record_id) == IF Truthy(nm) THEN nm ELSE parent_record_id

\* format_list_entry from line 127 on
EntryText(values, index, shown) ==
    JoinedBy(<<" ", EmDash, " ">>,
        AttributeLines(values.v, values.o,
                       {"entry_id", "owner", "created_by", "created_at"}, <<>>,
                       <<DecimalDigits(index) \o <<". ">> \o PyStr(shown)>>))

format_list_entry(entry, index, record_names) ==
    EntryText(Get(entry, "entry_values", Get(entry, "values", PDict(EmptyDict))), index,
              NameOrId(ResolvedName(record_names, Get(entry, "parent_record_id", EmptyStr)),
                       Get(entry, "parent_record_id", EmptyStr)))

format_note(note) ==
    LET title == Get(note, "title", Lit("(no title)"))
        content == Get(note, "content_plaintext", Get(note, "content", EmptyStr))
        created == Get(note, "created_at", EmptyStr)
        author == IF Truthy(Get(note, "author", PNone))
                  THEN Get(note["author"].v, "name", EmptyStr) ELSE EmptyStr
    IN  Ret(PStr(JoinSeqs(<<"\n">>,
            <<<<"Note: ">> \o PyStr(title)>>
            \o (IF Truthy(author) THEN <<<<"  By: ">> \o PyStr(author)>> ELSE <<>>)
            \o (IF Truthy(created)
                THEN <<<<"  Created: ">> \o Prefix(created.v, 10)>> ELSE <<>>)
            \o (IF Truthy(content)
                THEN <<<<"  ">> \o Prefix(content.v, 500)>> ELSE <<>>))))

\* [a.get("name", a.get("email_address", "")) for a in assignees], the empty ones dropped
AssigneeNames(assignees) ==
    SelectSeq([i \in 1..Len(assignees) |->
                  Get(assignees[i].v, "name",
                      Get(assignees[i].v, "email_address", EmptyStr))],
              LAMBDA n : Truthy(n))

format_task(task) ==
    LET content == Get(task, "content_plaintext",
                       Get(task, "content", Lit("(no content)")))
        deadline == Get(task, "deadline_at", EmptyStr)
        completed == Get(task, "is_completed", PBool(FALSE))
        t0 == Get(task, "id", EmptyStr)
        task_id == IF t0.t = "dict" THEN Get(t0.v, "task_id", PStr(PyStr(t0))) ELSE t0
        assignees == Get(task, "assignees", PList(<<>>))
        linked == Get(task, "linked_records", PList(<<>>))
        status == IF Truthy(completed) THEN <<"Done">> ELSE <<"Open">>
    IN  Ret(PStr(JoinSeqs(<<"\n">>,
            <<<<"Task: ">> \o PyStr(content) \o <<" [">> \o status \o <<"] (ID: ">>
                \o PyStr(task_id) \o <<")">>>>
            \o (IF Truthy(deadline)
                THEN <<<<"  Deadline: ">> \o Prefix(deadline.v, 10)>> ELSE <<>>)
            \o (IF Truthy(assignees)
                THEN <<<<"  Assigned to: ">>
                       \o JoinFrom(<<", ">>, AssigneeNames(assignees.v), 1)>>
                ELSE <<>>)
            \o (IF Truthy(linked)
                THEN <<<<"  Linked records: ">>
                       \o JoinFrom(<<", ">>,
                              [i \in 1..Len(linked.v) |->
                                  Get(linked.v[i].v, "target_record_id", EmptyStr)], 1)>>
                ELSE <<>>))))

(***************************************************************************)
(* client.py: the remote gateway                                           *)
(***************************************************************************)
\* a response body that is not JSON
NotJson == [t |-> "notjson", v |-> <<>>]

HttpResponse(status, body) == [status_code |-> status, body |-> body, text |-> <<"<body>">>]

\* an HTTP request as the gateway functions send it
Request(method, path, json, params) ==
    [method |-> method, path |-> path, json |-> json, params |-> params]

\* json or {}
JsonOrEmpty(json) == IF Truthy(json) THEN json ELSE PDict(EmptyDict)

client_get(path, params) == Request("GET", path, PNone, params)
client_post(path, json) == Request("POST", path, JsonOrEmpty(json), PNone)
client_put(path, json, params) == Request("PUT", path, JsonOrEmpty(json), params)
client_patch(path, json) == Request("PATCH", path, JsonOrEmpty(json), PNone)
client_delete(path) == Request("DELETE", path, PNone, PNone)

\* f"{'.'.join(e.get('path', []))}: {e.get('message', '')}" for every validation error
ValidationDetails(errors) ==
    JoinSeqs(<<"; ">>,
        [i \in 1..Len(errors) |->
            JoinFrom(<<".">>, Get(errors[i].v, "path", PList(<<>>)).v, 1) \o <<": ">>
                \o PyStr(Get(errors[i].v, "message", EmptyStr))])

\* the message of a failed response: message, else error, else the raw text,
\* with the validation errors appended; the raw text when the body is no object
ErrorMessage(resp) ==
    IF resp.body.t # "dict" THEN resp.text
    ELSE LET body == resp.body.v
             msg == IF Truthy(Get(body, "message", PNone)) THEN PyStr(body["message"])
                    ELSE IF Truthy(Get(body, "error", PNone)) THEN PyStr(body["error"])
                    ELSE resp.text
         IN  IF "validation_errors" \in DOMAIN body
             THEN msg \o <<" [">> \o ValidationDetails(body["validation_errors"].v)
                      \o <<"]">>
             ELSE msg

\* the first status code that is a failure
FirstErrorStatus == 400

_handle_response(resp) ==
    IF resp.status_code >= FirstErrorStatus
    THEN Raise("RuntimeError",
               <<"Attio API error (">> \o DecimalDigits(resp.status_code) \o <<"): ">>
                   \o ErrorMessage(resp))
    ELSE IF resp.status_code = 204 THEN Ret(PDict(EmptyDict))
    ELSE IF resp.body = NotJson
         THEN Raise("JSONDecodeError", <<"Expecting value: line 1 column 1 (char 0)">>)
    ELSE Ret(resp.body)

\* what a gateway call gives its caller: the transport fails (no response), or
\* the response goes through _handle_response
TransportError == [status_code |-> 0, body |-> NotJson, text |-> <<>>]

Gateway(resp) ==
    IF resp = TransportError THEN Raise("ConnectError", <<"All connection attempts failed">>)
    ELSE _handle_response(resp)

(***************************************************************************)
(* What a handler does up to its remote call, and after it                 *)
(*                                                                         *)
(* _x(args) is handler _x up to its gateway call: the request it sends, or *)
(* the exception it raises before.  _x_return(args, data) is the rest of   *)
(* it, given what the gateway returned.                                    *)
(***************************************************************************)
Call(req) == [kind |-> "call", req |-> req]

\* args[k] for a key that is absent
KeyError(k) == Raise("KeyError", <<"'", k, "'">>)

\* the first of the keys, in the order the handler reads them, that args lacks
MissingKeys(args, keys) == {i \in 1..Len(keys) : keys[i] \notin DOMAIN args}
FirstMissing(args, keys) == keys[Min(MissingKeys(args, keys))]

\* x.get(...), x.items() on what is not a dict
NoAttribute(x, attr) ==
    Raise("AttributeError", <<"'", x.t, "' object has no attribute '", attr, "'">>)

Companies == <<"c", "o", "m", "p", "a", "n", "i", "e", "s">>
People == <<"p", "e", "o", "p", "l", "e">>
Deals == <<"d", "e", "a", "l", "s">>

\* a dict's items with one more when the condition holds
WithIf(cond, k, x) == IF cond THEN k :> x ELSE EmptyDict

(***************************************************************************)
(* tools_records.py                                                        *)
(***************************************************************************)
Contains(query) == PDict("$contains" :> query)

\* a search that looks at the name only, whatever the object type
SearchFilter_nameOnly(object_type, query) == PDict([name |-> Contains(query)])

\* _search: the filter for an object type
SearchFilter(object_type, query) ==
    IF object_type = PStr(People)
    THEN PDict("$or" :> PList(<<PDict([name |-> Contains(query)]),
                                PDict([email_addresses |-> Contains(query)])>>))
    ELSE IF object_type = PStr(Companies)
    THEN PDict("$or" :> PList(<<PDict([name |-> Contains(query)]),
                                PDict([domains |-> Contains(query)])>>))
    ELSE PDict([name |-> Contains(query)])

_search(args) ==
    IF "query" \notin DOMAIN args THEN KeyError("query")
    ELSE LET query == args["query"]
             object_type == Get(args, "object", PStr(Companies))
             limit == Get(args, "limit", PInt(10))
         IN  Call(client_post(<<"/objects/">> \o PyStr(object_type) \o <<"/records/query">>,
                              PDict([filter |-> SearchFilter(object_type, query),
                                     limit |-> limit])))

RECURSIVE NumberedShort(_, _)
\* f"{i}. {formatting.format_record_short(rec)}" for the records from the i-th on
NumberedShort(records, i) ==
    IF i > Len(records) THEN Ret(<<>>)
    ELSE ConsText(DecimalDigits(i) \o <<". ">>, format_record_short(records[i].v),
                  NumberedShort(records, i + 1))

\* the listing of search_records and query_records
FoundRecords(records, object_type) ==
    Headed(<<"Found ">> \o DecimalDigits(Len(records)) \o <<" ">> \o PyStr(object_type)
               \o <<":">>,
           NumberedShort(records, 1))

_search_return(args, data) ==
    LET query == args["query"]
        object_type == Get(args, "object", PStr(Companies))
        records == Get(data, "data", PList(<<>>))
    IN  IF ~Truthy(records)
        THEN Ret(PStr(<<"No ">> \o PyStr(object_type) \o <<" found matching '">>
                      \o PyStr(query) \o <<"'">>))
        ELSE FoundRecords(records.v, object_type)

_get(args) ==
    IF MissingKeys(args, <<"object", "record_id">>) # {}
    THEN KeyError(FirstMissing(args, <<"object", "record_id">>))
    ELSE Call(client_get(<<"/objects/">> \o PyStr(args["object"]) \o <<"/records/">>
                             \o PyStr(args["record_id"]), PNone))

_get_return(args, data) ==
    format_record(Get(data, "data", PDict(data)).v, args["object"])

\* a normalization that wraps every scalar in a list
_format_write_values_wrapping(values) ==
    PODict([k \in DOMAIN values.v |->
               IF values.v[k].t = "list" THEN values.v[k] ELSE PList(<<values.v[k]>>)],
           values.o)

_format_write_values(values) ==
    PODict([k \in DOMAIN values.v |->
               IF values.v[k].t = "list" THEN values.v[k] ELSE values.v[k]],
           values.o)

_create_or_update(args) ==
    IF MissingKeys(args, <<"object", "matching_attribute", "values">>) # {}
    THEN KeyError(FirstMissing(args, <<"object", "matching_attribute", "values">>))
    ELSE IF args["values"].t # "dict" THEN NoAttribute(args["values"], "items")
    ELSE Call(client_put(<<"/objects/">> \o PyStr(args["object"]) \o <<"/records">>,
                  PDict([data |-> PDict([values |-> _format_write_values(args["values"])])]),
                  PDict([matching_attribute |-> args["matching_attribute"]])))

\* _create_or_update from line 269 on
WrittenText(verb, args, record_id, nm) ==
    IF nm.kind = "raise" THEN nm
    ELSE Ret(PStr(verb \o RStrip(args["object"].v, "s") \o <<": ">>
                  \o OrUnnamed(nm.value) \o <<" (ID: ">> \o PyStr(record_id) \o <<")">>))

_create_or_update_return(args, data) ==
    WrittenText(<<"Created/updated ">>, args,
                NestedId(Get(data, "data", PDict(data)).v, "id", "record_id"),
                FirstExtraction(Get(Get(data, "data", PDict(data)).v, "values",
                                    PDict(EmptyDict)).v,
                                <<"name", "full_name">>))

_update(args) ==
    IF MissingKeys(args, <<"object", "record_id", "values">>) # {}
    THEN KeyError(FirstMissing(args, <<"object", "record_id", "values">>))
    ELSE IF args["values"].t # "dict" THEN NoAttribute(args["values"], "items")
    ELSE Call(client_patch(<<"/objects/">> \o PyStr(args["object"]) \o <<"/records/">>
                               \o PyStr(args["record_id"]),
                  PDict([data |-> PDict([values |-> _format_write_values(args["values"])])])))

\* _update from line 302 on
UpdatedText(args, nm) ==
    IF nm.kind = "raise" THEN nm
    ELSE Ret(PStr(<<"Updated ">> \o RStrip(args["object"].v, "s") \o <<": ">>
                  \o PyStr(NameOrId(nm.value, args["record_id"]))))

_update_return(args, data) ==
    UpdatedText(args,
                FirstExtraction(Get(Get(data, "data", PDict(data)).v, "values",
                                    PDict(EmptyDict)).v,
                                <<"name", "full_name">>))

_list_entries(args) ==
    IF MissingKeys(args, <<"object", "record_id">>) # {}
    THEN KeyError(FirstMissing(args, <<"object", "record_id">>))
    ELSE Call(client_get(<<"/objects/">> \o PyStr(args["object"]) \o <<"/records/">>
                             \o PyStr(args["record_id"]) \o <<"/entries">>, PNone))

_list_entries_return(args, data) ==
    LET es == Get(data, "data", PList(<<>>))
    IN  IF ~Truthy(es) THEN Ret(Lit("This record is not in any lists/pipelines."))
        ELSE Ret(PStr(JoinSeqs(<<"\n">>,
                 <<<<"Record belongs to ">> \o DecimalDigits(Len(es.v)) \o <<" list(s):">>>>
                 \o [i \in 1..Len(es.v) |->
                        <<"  List: ">> \o PyStr(Get(es.v[i].v, "list_id", EmptyStr))
                            \o <<" ", EmDash, " Entry ID: ">>
                            \o PyStr(Get(es.v[i].v, "entry_id",
                                         Get(es.v[i].v, "id", EmptyStr)))])))

\* body = {"limit": limit}, with filter and sorts when they are given and not empty
QueryBody(args, limit) ==
    PDict([limit |-> limit]
          @@ WithIf(Truthy(Get(args, "filter", PNone)), "filter", Get(args, "filter", PNone))
          @@ WithIf(Truthy(Get(args, "sorts", PNone)), "sorts", Get(args, "sorts", PNone)))

_query_records(args) ==
    IF "object" \notin DOMAIN args THEN KeyError("object")
    ELSE Call(client_post(<<"/objects/">> \o PyStr(args["object"]) \o <<"/records/query">>,
                          QueryBody(args, Get(args, "limit", PInt(20)))))

_query_records_return(args, data) ==
    LET records == Get(data, "data", PList(<<>>))
    IN  IF ~Truthy(records)
        THEN Ret(PStr(<<"No ">> \o PyStr(args["object"]) \o <<" matched the query.">>))
        ELSE FoundRecords(records.v, args["object"])

_get_attribute_history(args) ==
    IF MissingKeys(args, <<"object", "record_id", "attribute">>) # {}
    THEN KeyError(FirstMissing(args, <<"object", "record_id", "attribute">>))
    ELSE Call(client_get(<<"/objects/">> \o PyStr(args["object"]) \o <<"/records/">>
                             \o PyStr(args["record_id"]) \o <<"/attributes/">>
                             \o PyStr(args["attribute"]) \o <<"/values">>,
                         PDict([show_historic |-> Lit("true")])))

\* the line of one historic value, whose extraction is given
HistoryLine(val, raw) ==
    IF raw.kind = "raise" THEN raw
    ELSE Ret(PStr(<<"  ">> \o PyStr(Get(val, "active_from", Lit("unknown")))
                  \o <<": ">> \o PyStr(raw.value)
                  \o (IF Get(val, "active_until", PNone) = PNone THEN <<" [current]">>
                      ELSE <<" ", RightArrow, " ended ">> \o PyStr(Get(val, "active_until", PNone)))))

RECURSIVE HistoryLines(_, _)
\* one line for every historic value from the i-th on
HistoryLines(values, i) ==
    IF i > Len(values) THEN Ret(<<>>)
    ELSE ConsText(<<>>, HistoryLine(values[i].v, extract_value(values[i].v)),
                  HistoryLines(values, i + 1))

_get_attribute_history_return(args, data) ==
    IF ~Truthy(Get(data, "data", PList(<<>>)))
    THEN Ret(PStr(<<"No values found for ">> \o PyStr(args["attribute"])
                  \o <<" on this record.">>))
    ELSE Headed(<<"History for '">> \o PyStr(args["attribute"]) \o <<"' (">>
                    \o DecimalDigits(Len(data["data"].v)) \o <<" values):">>,
                HistoryLines(data["data"].v, 1))

_delete_record(args) ==
    IF MissingKeys(args, <<"object", "record_id">>) # {}
    THEN KeyError(FirstMissing(args, <<"object", "record_id">>))
    ELSE Call(client_delete(<<"/objects/">> \o PyStr(args["object"]) \o <<"/records/">>
                                \o PyStr(args["record_id"])))

_delete_record_return(args, data) ==
    Ret(PStr(<<"Permanently deleted ">> \o RStrip(args["object"].v, "s")
             \o <<" record ">> \o PyStr(args["record_id"]) \o <<".">>))

(***************************************************************************)
(* tools_lists.py                                                          *)
(***************************************************************************)
_list_lists(args) == Call(client_get(<<"/lists">>, PNone))

\* the separator written in tools_lists.py line 176: the three characters
\* U+00E2 U+20AC U+201D (an em dash decoded with the wrong charset), not U+2014
MisdecodedDash == <<"<U+00E2>", "<U+20AC>", "<U+201D>">>

\* the line of one list in the listing of list_lists
ListLine(lst) ==
    LET list_id == NestedId(lst, "id", "list_id")
        nm == Get(lst, "name", Lit("(unnamed)"))
        slug == Get(lst, "api_slug", EmptyStr)
        p0 == Get(lst, "parent_object", EmptyStr)
        parent == IF p0.t = "list" /\ Truthy(p0) THEN p0.v[1] ELSE p0
    IN  JoinSeqs(<<" ">> \o MisdecodedDash \o <<" ">>,
            <<<<"  ">> \o PyStr(nm)>>
            \o (IF Truthy(slug) THEN <<<<"slug: ">> \o PyStr(slug)>> ELSE <<>>)
            \o <<<<"ID: ">> \o PyStr(list_id)>>
            \o (IF Truthy(parent) THEN <<<<"parent: ">> \o PyStr(parent)>> ELSE <<>>))

_list_lists_return(args, data) ==
    LET lists == Get(data, "data", PList(<<>>))
    IN  IF ~Truthy(lists) THEN Ret(Lit("No lists found in workspace."))
        ELSE Ret(PStr(JoinSeqs(<<"\n">>,
                 <<<<"Lists in workspace:">>>>
                 \o [i \in 1..Len(lists.v) |-> ListLine(lists.v[i].v)])))

\* a derivation that lower-cases and replaces blanks and hyphens only
SlugFromName_replaceOnly(nm) == Replace(Replace(Lower(nm), " ", "_"), "-", "_")

\* re.sub(r"[^a-z0-9]+", "_", name.lower()).strip("_")
SlugFromName(nm) == Strip(SubNonSlugRuns(Lower(nm), FALSE), "_")

_create_list(args) ==
    IF "name" \notin DOMAIN args THEN KeyError("name")
    ELSE LET nm == args["name"]
             parent == Get(args, "parent_object", PStr(Companies))
             access == Get(args, "workspace_access", Lit("full-access"))
             given == Get(args, "api_slug", EmptyStr)
         IN  IF ~Truthy(given) /\ nm.t # "str" THEN NoAttribute(nm, "lower")
             ELSE Call(client_post(<<"/lists">>,
                      PDict([data |-> PDict(
                          [name |-> nm,
                           api_slug |-> IF Truthy(given) THEN given
                                        ELSE PStr(SlugFromName(nm.v)),
                           parent_object |-> parent,
                           workspace_access |-> access,
                           workspace_member_access |-> PList(<<>>)])])))

_create_list_return(args, data) ==
    LET lst == Get(data, "data", PDict(data)).v
        list_id == NestedId(lst, "id", "list_id")
        given == Get(args, "api_slug", EmptyStr)
        slug == IF Truthy(given) THEN given ELSE PStr(SlugFromName(args["name"].v))
    IN  Ret(PStr(<<"Created list: ">> \o PyStr(args["name"]) \o <<" (ID: ">>
                 \o PyStr(list_id) \o <<", slug: ">>
                 \o PyStr(Get(lst, "api_slug", slug)) \o <<")">>))

_query_entries(args) ==
    IF "list_id" \notin DOMAIN args THEN KeyError("list_id")
    ELSE Call(client_post(<<"/lists/">> \o PyStr(args["list_id"]) \o <<"/entries/query">>,
                          QueryBody(args, Get(args, "limit", PInt(50)))))

\* by_object.setdefault(obj, []).append(rid): the groups keep insertion order
AppendToGroup(groups, obj, rid) ==
    IF \E i \in 1..Len(groups) : groups[i].obj = obj
    THEN [i \in 1..Len(groups) |->
            IF groups[i].obj = obj
            THEN [obj |-> obj, rids |-> Append(groups[i].rids, rid)]
            ELSE groups[i]]
    ELSE Append(groups, [obj |-> obj, rids |-> <<rid>>])

RECURSIVE GroupByObject(_, _, _)
\* _resolve_parent_names, first loop: names is the dict of resolved names, which
\* this loop only reads
GroupByObject(es, resolved, groups) ==
    IF es = <<>> THEN groups
    ELSE LET obj == Get(Head(es).v, "parent_object", EmptyStr)
             rid == Get(Head(es).v, "parent_record_id", EmptyStr)
         IN  IF Truthy(obj) /\ Truthy(rid) /\ rid.v \notin DOMAIN resolved
             THEN GroupByObject(Tail(es), resolved, AppendToGroup(groups, obj, rid))
             ELSE GroupByObject(Tail(es), resolved, groups)

RECURSIVE LookupOrder(_)
\* for obj, record_ids in by_object.items(): for rid in record_ids: the lookups
LookupOrder(groups) ==
    IF groups = <<>> THEN <<>>
    ELSE [i \in 1..Len(Head(groups).rids) |->
             [obj |-> Head(groups).obj, rid |-> Head(groups).rids[i]]]
         \o LookupOrder(Tail(groups))

\* the request of one lookup
LookupRequest(l) ==
    client_get(<<"/objects/">> \o PyStr(l.obj) \o <<"/records/">> \o PyStr(l.rid), PNone)

\* names[rid] = x
SetName(resolved, rid, x) ==
    [k \in DOMAIN resolved \cup {rid.v} |-> IF k = rid.v THEN x ELSE resolved[k]]

\* the body of the try of one lookup, and its except: the names after it
\* the names after the name loop of one lookup, or after its except
Resolved(resolved, rid, nm) ==
    IF nm.kind = "raise" THEN SetName(resolved, rid, rid)
    ELSE IF Truthy(nm.value) THEN SetName(resolved, rid, nm.value)
    ELSE resolved

ResolveOne(resolved, rid, got) ==
    IF got.kind = "raise" \/ got.value.t # "dict" THEN SetName(resolved, rid, rid)
    ELSE Resolved(resolved, rid,
                  FirstExtraction(Get(Get(got.value.v, "data", got.value).v, "values",
                                      PDict(EmptyDict)).v,
                                  <<"name", "full_name">>))

RECURSIVE EntryLines(_, _, _)
\* formatting.format_list_entry(entry, i, record_names) for the entries from the i-th on
EntryLines(es, i, record_names) ==
    IF i > Len(es) THEN Ret(<<>>)
    ELSE ConsText(<<>>, format_list_entry(es[i].v, i, record_names),
                  EntryLines(es, i + 1, record_names))

\* _query_entries after _resolve_parent_names returned record_names
_query_entries_return(args, es, record_names) ==
    Headed(<<"List '">> \o PyStr(args["list_id"]) \o <<"' (">> \o DecimalDigits(Len(es))
               \o <<" entries):">>,
           EntryLines(es, 1, record_names))

\* _query_entries when the query returned no entry
_query_entries_empty(args) ==
    Ret(PStr(<<"No entries in list '">> \o PyStr(args["list_id"]) \o <<"'.">>))

_create_or_update_entry(args) ==
    IF MissingKeys(args, <<"list_id", "parent_record_id">>) # {}
    THEN KeyError(FirstMissing(args, <<"list_id", "parent_record_id">>))
    ELSE Call(client_put(<<"/lists/">> \o PyStr(args["list_id"]) \o <<"/entries">>,
                  PDict([data |-> PDict(
                      [parent_record_id |-> args["parent_record_id"],
                       parent_object |-> Get(args, "parent_object", PStr(Companies)),
                       entry_values |-> Get(args, "entry_values", PDict(EmptyDict))])]),
                  PNone))

_create_or_update_entry_return(args, data) ==
    LET entry == Get(data, "data", PDict(data)).v
        e0 == IF Truthy(Get(entry, "entry_id", PNone)) THEN entry["entry_id"]
              ELSE Get(entry, "id", EmptyStr)
        entry_id == IF e0.t = "dict" THEN Get(e0.v, "entry_id", PStr(PyStr(e0))) ELSE e0
    IN  Ret(PStr(<<"Added/updated entry in '">> \o PyStr(args["list_id"])
                 \o <<"' (entry ID: ">> \o PyStr(entry_id) \o <<")">>))

_delete_entry(args) ==
    IF MissingKeys(args, <<"list_id", "entry_id">>) # {}
    THEN KeyError(FirstMissing(args, <<"list_id", "entry_id">>))
    ELSE Call(client_delete(<<"/lists/">> \o PyStr(args["list_id"]) \o <<"/entries/">>
                                \o PyStr(args["entry_id"])))

_delete_entry_return(args, data) ==
    Ret(PStr(<<"Removed entry ">> \o PyStr(args["entry_id"]) \o <<" from list '">>
             \o PyStr(args["list_id"]) \o <<"'.">>))

\* an archive_list that leaves the list as it is unless it is told to archive
_archive_list_unarchiving(args) ==
    IF "list_id" \notin DOMAIN args THEN KeyError("list_id")
    ELSE Call(client_patch(<<"/lists/">> \o PyStr(args["list_id"]),
                  PDict([data |-> PDict(
                      [is_archived |-> Get(args, "is_archived", PBool(FALSE))])])))

_archive_list(args) ==
    IF "list_id" \notin DOMAIN args THEN KeyError("list_id")
    ELSE Call(client_patch(<<"/lists/">> \o PyStr(args["list_id"]),
                  PDict([data |-> PDict(
                      [is_archived |-> Get(args, "is_archived", PBool(TRUE))])])))

_archive_list_return(args, data) ==
    LET lst == Get(data, "data", PDict(data)).v
    IN  Ret(PStr((IF Truthy(Get(args, "is_archived", PBool(TRUE)))
                  THEN <<"Archived">> ELSE <<"Unarchived">>)
                 \o <<" list: ">> \o PyStr(Get(lst, "name", args["list_id"]))))

(***************************************************************************)
(* tools_schema.py                                                         *)
(***************************************************************************)
_list_attributes(args) ==
    IF MissingKeys(args, <<"target", "target_id">>) # {}
    THEN KeyError(FirstMissing(args, <<"target", "target_id">>))
    ELSE Call(client_get(<<"/">> \o PyStr(args["target"]) \o <<"/">>
                             \o PyStr(args["target_id"]) \o <<"/attributes">>, PNone))

\* the line of one attribute in the listing of list_attributes
AttributeLine(attr) ==
    LET flags == (IF Truthy(Get(attr, "is_system", PBool(FALSE)))
                  THEN <<<<"system">>>> ELSE <<>>)
                 \o (IF ~Truthy(Get(attr, "is_writable", PBool(TRUE)))
                     THEN <<<<"read-only">>>> ELSE <<>>)
    IN  <<"  ">> \o PyStr(Get(attr, "api_slug", EmptyStr)) \o <<" (">>
            \o PyStr(Get(attr, "type", EmptyStr)) \o <<") ", EmDash, " ">>
            \o PyStr(Get(attr, "title", EmptyStr))
            \o (IF flags # <<>> THEN <<" [">> \o JoinSeqs(<<", ">>, flags) \o <<"]">>
                ELSE <<>>)

\* a listing that marks every invocation after the server's first
_list_attributes_return_marked(args, data) ==
    LET attrs == Get(data, "data", PList(<<>>))
    IN  Ret(PStr(<<"Attributes (">> \o DecimalDigits(Len(attrs.v)) \o <<")">>
                 \o (IF pc = "first" THEN <<>> ELSE <<" [again]">>)))

_list_attributes_return(args, data) ==
    LET attrs == Get(data, "data", PList(<<>>))
        where == PyStr(args["target"]) \o <<"/">> \o PyStr(args["target_id"])
    IN  IF ~Truthy(attrs)
        THEN Ret(PStr(<<"No attributes found on ">> \o where \o <<".">>))
        ELSE Ret(PStr(JoinSeqs(<<"\n">>,
                 <<<<"Attributes on ">> \o where \o <<" (">>
                     \o DecimalDigits(Len(attrs.v)) \o <<"):">>>>
                 \o [i \in 1..Len(attrs.v) |-> AttributeLine(attrs.v[i].v)])))

\* args["title"].lower().replace(" ", "_").replace("-", "_")
SlugFromTitle(title) == Replace(Replace(Lower(title), " ", "_"), "-", "_")

\* the config of the body: args.get("config") or {}, with the currency when a
\* default_currency_code is given
AttributeConfig(args) ==
    LET config == IF Truthy(Get(args, "config", PNone)) THEN args["config"]
                  ELSE PDict(EmptyDict)
    IN  IF Truthy(Get(args, "default_currency_code", PNone))
        THEN PDict(("currency" :> PDict([default_currency_code |->
                                            args["default_currency_code"]]))
                   @@ config.v)
        ELSE config

_create_attribute(args) ==
    IF MissingKeys(args, <<"target", "target_id", "title", "type">>) # {}
    THEN KeyError(FirstMissing(args, <<"target", "target_id", "title", "type">>))
    ELSE IF ~Truthy(Get(args, "api_slug", PNone)) /\ args["title"].t # "str"
    THEN NoAttribute(args["title"], "lower")
    ELSE Call(client_post(<<"/">> \o PyStr(args["target"]) \o <<"/">>
                              \o PyStr(args["target_id"]) \o <<"/attributes">>,
             PDict([data |-> PDict(
                 [title |-> args["title"],
                  api_slug |-> IF Truthy(Get(args, "api_slug", PNone)) THEN args["api_slug"]
                               ELSE PStr(SlugFromTitle(args["title"].v)),
                  type |-> args["type"],
                  description |-> IF Truthy(Get(args, "description", PNone))
                                  THEN args["description"] ELSE PNone,
                  is_required |-> Get(args, "is_required", PBool(FALSE)),
                  is_unique |-> Get(args, "is_unique", PBool(FALSE)),
                  is_multiselect |-> Get(args, "is_multiselect", PBool(FALSE)),
                  config |-> AttributeConfig(args)]
                 @@ WithIf(Truthy(Get(args, "relationship", PNone)), "relationship",
                           Get(args, "relationship", PNone)))])))

\* the argument object when _create_attribute has reached its remote call:
\* body["data"]["config"] is args["config"] itself when that is truthy, and
\* line 196 stores the currency in it
_create_attribute_arguments(args) ==
    IF /\ _create_attribute(args).kind = "call"
       /\ Truthy(Get(args, "config", PNone))
       /\ Truthy(Get(args, "default_currency_code", PNone))
    THEN ("config" :> AttributeConfig(args)) @@ args
    ELSE args

_create_attribute_return(args, data) ==
    LET attr == Get(data, "data", PDict(data)).v
    IN  Ret(PStr(<<"Created attribute: ">> \o PyStr(Get(attr, "title", args["title"]))
                 \o <<" (slug: ">> \o PyStr(Get(attr, "api_slug", EmptyStr))
                 \o <<", type: ">> \o PyStr(args["type"]) \o <<")">>))

\* "statuses" if is_status else "options"
OptionsEndpoint(args) ==
    IF Truthy(Get(args, "is_status", PBool(FALSE))) THEN <<"statuses">> ELSE <<"options">>

\* item_id = item.get("id", {}); a dict gives its option_id, else its status_id,
\* else its text
OptionId(item) ==
    LET x == Get(item, "id", PDict(EmptyDict))
    IN  IF x.t # "dict" THEN x
        ELSE IF Truthy(Get(x.v, "option_id", PNone)) THEN x.v["option_id"]
        ELSE IF Truthy(Get(x.v, "status_id", PNone)) THEN x.v["status_id"]
        ELSE PStr(PyStr(x))

_list_select_options(args) ==
    IF MissingKeys(args, <<"target", "target_id", "attribute">>) # {}
    THEN KeyError(FirstMissing(args, <<"target", "target_id", "attribute">>))
    ELSE Call(client_get(<<"/">> \o PyStr(args["target"]) \o <<"/">>
                             \o PyStr(args["target_id"]) \o <<"/attributes/">>
                             \o PyStr(args["attribute"]) \o <<"/">> \o OptionsEndpoint(args),
                         PNone))

_list_select_options_return(args, data) ==
    LET items == Get(data, "data", PList(<<>>))
        kind == OptionsEndpoint(args)
    IN  IF ~Truthy(items)
        THEN Ret(PStr(<<"No ">> \o kind \o <<" for ">> \o PyStr(args["attribute"])
                      \o <<".">>))
        ELSE Ret(PStr(JoinSeqs(<<"\n">>,
                 <<(IF kind = <<"statuses">> THEN <<"Statuses">> ELSE <<"Options">>)
                     \o <<" for ">> \o PyStr(args["attribute"]) \o <<" (">>
                     \o DecimalDigits(Len(items.v)) \o <<"):">>>>
                 \o [i \in 1..Len(items.v) |->
                        <<"  ">> \o PyStr(Get(items.v[i].v, "title", EmptyStr))
                            \o (IF Truthy(Get(items.v[i].v, "is_archived", PBool(FALSE)))
                                THEN <<" [archived]">> ELSE <<>>)
                            \o <<" (ID: ">> \o PyStr(OptionId(items.v[i].v)) \o <<")">>])))

_create_select_option(args) ==
    IF MissingKeys(args, <<"target", "target_id", "attribute", "title">>) # {}
    THEN KeyError(FirstMissing(args, <<"target", "target_id", "attribute", "title">>))
    ELSE Call(client_post(<<"/">> \o PyStr(args["target"]) \o <<"/">>
                              \o PyStr(args["target_id"]) \o <<"/attributes/">>
                              \o PyStr(args["attribute"]) \o <<"/">> \o OptionsEndpoint(args),
                          PDict([data |-> PDict([title |-> args["title"]])])))

_create_select_option_return(args, data) ==
    LET item == Get(data, "data", PDict(data)).v
    IN  Ret(PStr(<<"Created ">>
                 \o (IF Truthy(Get(args, "is_status", PBool(FALSE)))
                     THEN <<"status">> ELSE <<"option">>)
                 \o <<": ">> \o PyStr(args["title"]) \o <<" (ID: ">>
                 \o PyStr(OptionId(item)) \o <<")">>))

(***************************************************************************)
(* tools_notes.py                                                          *)
(***************************************************************************)
_create_note(args) ==
    IF MissingKeys(args, <<"parent_object", "parent_record_id", "title", "content">>) # {}
    THEN KeyError(FirstMissing(args,
                      <<"parent_object", "parent_record_id", "title", "content">>))
    ELSE Call(client_post(<<"/notes">>,
                  PDict([data |-> PDict(
                      [parent_object |-> args["parent_object"],
                       parent_record_id |-> args["parent_record_id"],
                       title |-> args["title"],
                       format |-> Lit("plaintext"),
                       content |-> args["content"]])])))

_create_note_return(args, data) ==
    LET note == Get(data, "data", PDict(data)).v
        n0 == IF Truthy(Get(note, "note_id", PNone)) THEN note["note_id"]
              ELSE Get(note, "id", EmptyStr)
        note_id == IF n0.t = "dict" THEN Get(n0.v, "note_id", PStr(PyStr(n0))) ELSE n0
    IN  Ret(PStr(<<"Created note: ">> \o PyStr(args["title"]) \o <<" (ID: ">>
                 \o PyStr(note_id) \o <<")">>))

_list_notes(args) ==
    IF MissingKeys(args, <<"parent_object", "parent_record_id">>) # {}
    THEN KeyError(FirstMissing(args, <<"parent_object", "parent_record_id">>))
    ELSE Call(client_get(<<"/notes">>,
                  PDict([parent_object |-> args["parent_object"],
                         parent_record_id |-> args["parent_record_id"],
                         limit |-> Get(args, "limit", PInt(20))])))

RECURSIVE BlockLines(_, _)
\* for x in items: lines.append(<the text of x>); lines.append("")
BlockLines(texts, i) ==
    IF i > Len(texts) THEN <<>>
    ELSE <<texts[i], <<>>>> \o BlockLines(texts, i + 1)

_list_notes_return(args, data) ==
    LET notes == Get(data, "data", PList(<<>>))
    IN  IF ~Truthy(notes) THEN Ret(Lit("No notes found on this record."))
        ELSE Ret(PStr(JoinSeqs(<<"\n">>,
                 <<<<"Notes (">> \o DecimalDigits(Len(notes.v)) \o <<"):">>>>
                 \o BlockLines([i \in 1..Len(notes.v) |->
                                   format_note(notes.v[i].v).value.v], 1))))

_delete_note(args) ==
    IF "note_id" \notin DOMAIN args THEN KeyError("note_id")
    ELSE Call(client_delete(<<"/notes/">> \o PyStr(args["note_id"])))

_delete_note_return(args, data) ==
    Ret(PStr(<<"Permanently deleted note ">> \o PyStr(args["note_id"]) \o <<".">>))

(***************************************************************************)
(* tools_tasks.py                                                          *)
(***************************************************************************)
RECURSIVE BeforeFirst(_, _)
\* s.split(c)[0]
BeforeFirst(s, c) ==
    IF s = <<>> \/ Head(s) = c THEN <<>> ELSE <<Head(s)>> \o BeforeFirst(Tail(s), c)

\* a deadline that is sent as it was given
DateOnly_unchanged(dl) == dl

\* the deadline create_task sends: the part before the first "T", if there is one
DateOnly(dl) == IF "T" \in Range(dl) THEN BeforeFirst(dl, "T") ELSE dl

\* "T" in dl for a list or a dict, which have no split
HoldsT(dl) ==
    \/ dl.t = "list" /\ Lit("T") \in Range(dl.v)
    \/ dl.t = "dict" /\ "T" \in DOMAIN dl.v

\* dl after the test for "T": a string is cut, any other value is sent as it is
SentDeadline(dl) == IF dl.t = "str" THEN PStr(DateOnly(dl.v)) ELSE dl

_create_task(args) ==
    IF "content" \notin DOMAIN args THEN KeyError("content")
    ELSE IF Truthy(Get(args, "deadline_at", PNone))
            /\ args["deadline_at"].t \in {"int", "bool"}
    THEN Raise("TypeError", <<"argument of type '", args["deadline_at"].t,
                              "' is not iterable">>)
    ELSE IF Truthy(Get(args, "deadline_at", PNone)) /\ HoldsT(args["deadline_at"])
    THEN NoAttribute(args["deadline_at"], "split")
    ELSE Call(client_post(<<"/tasks">>,
                  PDict([data |-> PDict(
                      [content |-> args["content"],
                       format |-> Lit("plaintext"),
                       is_completed |-> Get(args, "is_completed", PBool(FALSE)),
                       linked_records |-> Get(args, "linked_records", PList(<<>>)),
                       assignees |-> Get(args, "assignees", PList(<<>>))]
                      @@ WithIf(Truthy(Get(args, "deadline_at", PNone)), "deadline_at",
                                SentDeadline(Get(args, "deadline_at", EmptyStr))))])))

_create_task_return(args, data) ==
    LET task == Get(data, "data", PDict(data)).v
        task_id == NestedId(task, "id", "task_id")
    IN  Ret(PStr(<<"Created task: ">> \o Prefix(args["content"].v, 80) \o <<" (ID: ">>
                 \o PyStr(task_id) \o <<")">>))

_list_tasks(args) ==
    Call(client_get(<<"/tasks">>,
        PDict([limit |-> Get(args, "limit", PInt(50))]
              @@ (IF Truthy(Get(args, "linked_object", PNone))
                     /\ Truthy(Get(args, "linked_record_id", PNone))
                  THEN [linked_object |-> args["linked_object"],
                        linked_record_id |-> args["linked_record_id"]]
                  ELSE EmptyDict)
              @@ WithIf("is_completed" \in DOMAIN args, "is_completed",
                        PStr(Lower(PyStr(Get(args, "is_completed", PNone))))))))

_list_tasks_return(args, data) ==
    LET tasks == Get(data, "data", PList(<<>>))
    IN  IF ~Truthy(tasks) THEN Ret(Lit("No tasks found."))
        ELSE Ret(PStr(JoinSeqs(<<"\n">>,
                 <<<<"Tasks (">> \o DecimalDigits(Len(tasks.v)) \o <<"):">>>>
                 \o BlockLines([i \in 1..Len(tasks.v) |->
                                   format_task(tasks.v[i].v).value.v], 1))))

_update_task(args) ==
    IF "task_id" \notin DOMAIN args THEN KeyError("task_id")
    ELSE Call(client_patch(<<"/tasks/">> \o PyStr(args["task_id"]),
                  PDict([data |-> PDict(
                      (IF "content" \in DOMAIN args
                       THEN [content |-> args["content"], format |-> Lit("plaintext")]
                       ELSE EmptyDict)
                      @@ WithIf("deadline_at" \in DOMAIN args, "deadline_at",
                                Get(args, "deadline_at", PNone))
                      @@ WithIf("is_completed" \in DOMAIN args, "is_completed",
                                Get(args, "is_completed", PNone)))])))

_update_task_return(args, data) ==
    LET task == Get(data, "data", PDict(data)).v
    IN  Ret(PStr(<<"Updated task: ">>
                 \o Prefix(PyStr(Get(task, "content_plaintext",
                                     Get(task, "content", EmptyStr))), 80)))

(***************************************************************************)
(* handle of each tools_*.py, and server.py: call_tool                     *)
(***************************************************************************)
\* the names handle of a group has a branch for
Branches(group) ==
    CASE group = "records" ->
            {"search_records", "get_record", "create_or_update_record", "update_record",
             "list_record_entries", "query_records", "get_attribute_history",
             "delete_record"}
      [] group = "lists" ->
            {"list_lists", "create_list", "query_list_entries", "create_or_update_entry",
             "delete_entry", "archive_list"}
      [] group = "schema" ->
            {"list_attributes", "create_attribute", "list_select_options",
             "create_select_option"}
      [] group = "notes" -> {"create_note", "list_notes", "delete_note"}
      [] group = "tasks" -> {"create_task", "list_tasks", "update_task"}

\* the word of a group in its "Unknown ... tool" message
GroupWord(group) ==
    CASE group = "records" -> "record"
      [] group = "lists" -> "list"
      [] group = "schema" -> "schema"
      [] group = "notes" -> "note"
      [] group = "tasks" -> "task"

\* handle(name, args) of a group, up to the handler's remote call
handle(group, n, args) ==
    IF n \notin Branches(group)
    THEN Raise("ValueError", <<"Unknown ", GroupWord(group), " tool: ", n>>)
    ELSE CASE n = "search_records" -> _search(args)
           [] n = "get_record" -> _get(args)
           [] n = "create_or_update_record" -> _create_or_update(args)
           [] n = "update_record" -> _update(args)
           [] n = "list_record_entries" -> _list_entries(args)
           [] n = "query_records" -> _query_records(args)
           [] n = "get_attribute_history" -> _get_attribute_history(args)
           [] n = "delete_record" -> _delete_record(args)
           [] n = "list_lists" -> _list_lists(args)
           [] n = "create_list" -> _create_list(args)
           [] n = "query_list_entries" -> _query_entries(args)
           [] n = "create_or_update_entry" -> _create_or_update_entry(args)
           [] n = "delete_entry" -> _delete_entry(args)
           [] n = "archive_list" -> _archive_list(args)
           [] n = "list_attributes" -> _list_attributes(args)
           [] n = "create_attribute" -> _create_attribute(args)
           [] n = "list_select_options" -> _list_select_options(args)
           [] n = "create_select_option" -> _create_select_option(args)
           [] n = "create_note" -> _create_note(args)
           [] n = "list_notes" -> _list_notes(args)
           [] n = "delete_note" -> _delete_note(args)
           [] n = "create_task" -> _create_task(args)
           [] n = "list_tasks" -> _list_tasks(args)
           [] n = "update_task" -> _update_task(args)

\* the handlers that do not read what the gateway returned
IgnoresData == {"delete_record", "delete_entry", "delete_note"}

\* the handler of n after its remote call: the gateway's exception goes through,
\* and data.get(...) needs a dict
handle_return(n, args, got) ==
    IF got.kind = "raise" THEN got
    ELSE IF n \notin IgnoresData /\ got.value.t # "dict" THEN NoAttribute(got.value, "get")
    ELSE LET data == got.value.v
         IN  CASE n = "search_records" -> _search_return(args, data)
               [] n = "get_record" -> _get_return(args, data)
               [] n = "create_or_update_record" -> _create_or_update_return(args, data)
               [] n = "update_record" -> _update_return(args, data)
               [] n = "list_record_entries" -> _list_entries_return(args, data)
               [] n = "query_records" -> _query_records_return(args, data)
               [] n = "get_attribute_history" -> _get_attribute_history_return(args, data)
               [] n = "delete_record" -> _delete_record_return(args, data)
               [] n = "list_lists" -> _list_lists_return(args, data)
               [] n = "create_list" -> _create_list_return(args, data)
               [] n = "create_or_update_entry" -> _create_or_update_entry_return(args, data)
               [] n = "delete_entry" -> _delete_entry_return(args, data)
               [] n = "archive_list" -> _archive_list_return(args, data)
               [] n = "list_attributes" -> _list_attributes_return(args, data)
               [] n = "create_attribute" -> _create_attribute_return(args, data)
               [] n = "list_select_options" -> _list_select_options_return(args, data)
               [] n = "create_select_option" -> _create_select_option_return(args, data)
               [] n = "create_note" -> _create_note_return(args, data)
               [] n = "list_notes" -> _list_notes_return(args, data)
               [] n = "delete_note" -> _delete_note_return(args, data)
               [] n = "create_task" -> _create_task_return(args, data)
               [] n = "list_tasks" -> _list_tasks_return(args, data)
               [] n = "update_task" -> _update_task_return(args, data)

\* if not isinstance(arguments, dict): arguments = {}
Coerced(payload) == IF payload.t = "dict" THEN payload ELSE PDict(EmptyDict)

\* the argument object when the handler of n has run up to its remote call or
\* to its end: _create_attribute is the one handler that stores into an object
\* it reached through args
ArgumentsAfter(registry, n, args) ==
    IF n \in DOMAIN registry /\ n = "create_attribute"
    THEN [args EXCEPT !.v = _create_attribute_arguments(args.v)]
    ELSE args

\* a dispatcher that hands an unregistered name to the records group's search
call_tool_searchByDefault(registry, n, args) ==
    IF n \notin DOMAIN registry THEN _search(args)
    ELSE handle(registry[n], n, args)

\* call_tool up to the handler's remote call: HANDLERS.get(name), then the handler
call_tool(registry, n, args) ==
    IF n \notin DOMAIN registry THEN Raise("ValueError", <<"Unknown tool: ", n>>)
    ELSE handle(registry[n], n, args)

\* an except clause that lets a missing key through
Catches_valueErrorsOnly(exc) == exc \in {"ValueError", "RuntimeError"}

\* except Exception: every exception a handler can raise
Catches(exc) ==
    exc \in {"KeyError", "ValueError", "RuntimeError", "AttributeError", "TypeError",
             "JSONDecodeError", "ConnectError"}

TextContent(text) == [type |-> "text", text |-> text]

\* what call_tool returns for the handler's outcome
Returned(outcome) ==
    IF outcome.kind = "return" THEN <<TextContent(outcome.value.v)>>
    ELSE <<TextContent(<<"Error: ">> \o outcome.msg)>>

(***************************************************************************)
(* Inputs of the extraction functions                                      *)
(***************************************************************************)
\* the most fields a value object of the model carries
MaxFields == 2
\* the longest sequence of value objects given to extract_values
MaxValues == 3

ExtractFields ==
    {"display_value", "full_name", "value", "email_address", "domain",
     "phone_number", "option", "status", "currency_value", "currency_code",
     "date", "target_record_id"}

FieldValues(k) ==
    CASE k \in {"option", "status"} ->
            {PNone, PDict(EmptyDict), PDict([title |-> Lit("a")]),
             PDict([title |-> Lit("b")]), PDict([id |-> Lit("o1")]), Lit("a")}
      [] k = "currency_value" -> {PNone, PInt(0), PInt(15)}
      [] k = "currency_code" -> {Lit("USD"), Lit("EUR")}
      [] k = "target_record_id" -> {PNone, EmptyStr, Lit("r1")}
      [] k = "value" -> {PNone, EmptyStr, Lit("a"), Lit("b"), PInt(42), PBool(FALSE)}
      [] OTHER -> {PNone, EmptyStr, Lit("a"), Lit("b")}

ValueObjects ==
    UNION {{f \in [D -> UNION {FieldValues(k) : k \in D}] :
                \A k \in D : f[k] \in FieldValues(k)} :
           D \in {E \in SUBSET ExtractFields : Cardinality(E) <= MaxFields}}

\* the value objects the sequences of extract_values are made of
SampleObjects ==
    {PDict([value |-> Lit("a")]), PDict([value |-> EmptyStr]),
     PDict([value |-> Lit("b")]), PDict(EmptyDict),
     PDict([option |-> PDict([title |-> Lit("c")])]),
     PDict([option |-> PDict([title |-> PNone])]),
     PDict([target_record_id |-> Lit("r1")]),
     PDict([status |-> Lit("won")])}

ValueSequences ==
    {PNone} \cup {PList(s) : s \in UNION {[1..n -> SampleObjects] : n \in 0..MaxValues}}

NotRun == [kind |-> "none"]

(***************************************************************************)
(* The declared tools: TOOLS of each tools_*.py (name, properties,         *)
(* required, defaults of the inputSchema), in declaration order            *)
(***************************************************************************)
NoDefaults == EmptyDict

Tool(n, props, req, defs) ==
    [name |-> n, properties |-> props, required |-> req, defaults |-> defs]

tools_records_TOOLS ==
    << Tool("search_records", {"query", "object", "limit"}, {"query"},
            [object |-> PStr(Companies), limit |-> PInt(10)]),
       Tool("get_record", {"object", "record_id"}, {"object", "record_id"}, NoDefaults),
       Tool("create_or_update_record", {"object", "matching_attribute", "values"},
            {"object", "matching_attribute", "values"}, NoDefaults),
       Tool("update_record", {"object", "record_id", "values"},
            {"object", "record_id", "values"}, NoDefaults),
       Tool("list_record_entries", {"object", "record_id"}, {"object", "record_id"},
            NoDefaults),
       Tool("query_records", {"object", "filter", "sorts", "limit"}, {"object"},
            [limit |-> PInt(20)]),
       Tool("get_attribute_history", {"object", "record_id", "attribute"},
            {"object", "record_id", "attribute"}, NoDefaults),
       Tool("delete_record", {"object", "record_id"}, {"object", "record_id"},
            NoDefaults) >>

tools_lists_TOOLS ==
    << Tool("list_lists", {}, {}, NoDefaults),
       Tool("create_list", {"name", "api_slug", "parent_object", "workspace_access"},
            {"name"},
            [parent_object |-> PStr(Companies), workspace_access |-> Lit("full-access")]),
       Tool("query_list_entries", {"list_id", "filter", "sorts", "limit"}, {"list_id"},
            [limit |-> PInt(50)]),
       Tool("create_or_update_entry",
            {"list_id", "parent_record_id", "parent_object", "entry_values"},
            {"list_id", "parent_record_id", "parent_object"},
            [parent_object |-> PStr(Companies), entry_values |-> PDict(EmptyDict)]),
       Tool("delete_entry", {"list_id", "entry_id"}, {"list_id", "entry_id"}, NoDefaults),
       Tool("archive_list", {"list_id", "is_archived"}, {"list_id"},
            [is_archived |-> PBool(TRUE)]) >>

tools_schema_TOOLS ==
    << Tool("list_attributes", {"target", "target_id"}, {"target", "target_id"},
            NoDefaults),
       Tool("create_attribute",
            {"target", "target_id", "title", "api_slug", "type", "is_multiselect",
             "relationship", "default_currency_code"},
            {"target", "target_id", "title", "type"},
            [is_multiselect |-> PBool(FALSE)]),
       Tool("list_select_options", {"target", "target_id", "attribute", "is_status"},
            {"target", "target_id", "attribute"}, [is_status |-> PBool(FALSE)]),
       Tool("create_select_option",
            {"target", "target_id", "attribute", "title", "is_status"},
            {"target", "target_id", "attribute", "title"},
            [is_status |-> PBool(FALSE)]) >>

tools_notes_TOOLS ==
    << Tool("create_note", {"parent_object", "parent_record_id", "title", "content"},
            {"parent_object", "parent_record_id", "title", "content"}, NoDefaults),
       Tool("list_notes", {"parent_object", "parent_record_id", "limit"},
            {"parent_object", "parent_record_id"}, [limit |-> PInt(20)]),
       Tool("delete_note", {"note_id"}, {"note_id"}, NoDefaults) >>

tools_tasks_TOOLS ==
    << Tool("create_task",
            {"content", "deadline_at", "is_completed", "linked_records", "assignees"},
            {"content"}, [is_completed |-> PBool(FALSE)]),
       Tool("list_tasks", {"linked_object", "linked_record_id", "is_completed", "limit"},
            {}, [limit |-> PInt(50)]),
       Tool("update_task", {"task_id", "content", "deadline_at", "is_completed"},
            {"task_id"}, NoDefaults) >>

\* server.py: ALL_TOOLS, the concatenation of the five lists
ALL_TOOLS ==
    tools_records_TOOLS \o tools_lists_TOOLS \o tools_schema_TOOLS
        \o tools_notes_TOOLS \o tools_tasks_TOOLS

RECURSIVE Register(_, _, _)
\* for tool_def in <module>.TOOLS: HANDLERS[tool_def["name"]] = <module>.handle
Register(h, tools, group) ==
    IF tools = <<>> THEN h
    ELSE LET n == Head(tools).name
         IN  Register([k \in DOMAIN h \cup {n} |-> IF k = n THEN group ELSE h[k]],
                      Tail(tools), group)

\* a registration that leaves out the last group's loop
ModuleHandlers_noTasks ==
    Register(Register(Register(Register([k \in {} |-> ""],
        tools_records_TOOLS, "records"), tools_lists_TOOLS, "lists"),
        tools_schema_TOOLS, "schema"), tools_notes_TOOLS, "notes")

\* server.py: the HANDLERS dict after the five registration loops
ModuleHandlers ==
    Register(Register(Register(Register(Register([k \in {} |-> ""],
        tools_records_TOOLS, "records"), tools_lists_TOOLS, "lists"),
        tools_schema_TOOLS, "schema"), tools_notes_TOOLS, "notes"),
        tools_tasks_TOOLS, "tasks")

(***************************************************************************)
(* The formatting functions applied to inputs: one call per behaviour      *)
(***************************************************************************)
\* the state of the server while a formatting function is exercised alone
ServerIdle ==
    /\ HANDLERS = ModuleHandlers
    /\ arguments = PNone
    /\ calls = <<>>
    /\ answers = <<>>
    /\ results = <<>>
    /\ entries = <<>>
    /\ by_object = <<>>
    /\ names = EmptyDict

InitFormat ==
    /\ ServerIdle
    /\ pc = "start"
    /\ output = NotRun
    /\ \/ name = "extract_value" /\ input \in {PDict(f) : f \in ValueObjects}
       \/ name = "extract_values" /\ input \in ValueSequences

Apply_extract_value ==
    /\ pc = "start" /\ name = "extract_value"
    /\ output' = extract_value(input.v)
    /\ pc' = "done"
    /\ UNCHANGED <<HANDLERS, name, arguments, calls, answers, results, entries,
                   by_object, names, input>>

Apply_extract_values ==
    /\ pc = "start" /\ name = "extract_values"
    /\ output' = extract_values(input)
    /\ pc' = "done"
    /\ UNCHANGED <<HANDLERS, name, arguments, calls, answers, results, entries,
                   by_object, names, input>>

NextFormat == Apply_extract_value \/ Apply_extract_values

SpecFormat == InitFormat /\ [][NextFormat]_vars

(***************************************************************************)
(* What callers pass and what the remote service answers                   *)
(***************************************************************************)
\* the most entries a page of list entries carries
MaxEntries == 2

\* the values a caller gives for a property of an input schema
ArgValues(k) ==
    CASE k = "object" ->
            {PStr(Companies), PStr(People), PStr(Deals),
             PStr(<<"w", "i", "d", "g", "e", "t", "s">>)}
      [] k \in {"parent_object", "linked_object", "target_id"} -> {PStr(People)}
      [] k = "values" ->
            {PDict([name |-> Lit("Acme")]),
             PDict([name |-> Lit("Acme"), domains |-> PList(<<Lit("acme.com")>>)])}
      [] k = "filter" -> {PDict(EmptyDict), PDict([stage |-> Lit("Lead")])}
      [] k = "sorts" -> {PList(<<>>), PList(<<PDict([attribute |-> Lit("name")])>>)}
      [] k = "name" -> {PStr(<<"M", "y", " ", "L", "i", "s", "t">>)}
      [] k = "title" -> {PStr(<<"D", "e", "a", "l", "-", "S", "i", "z", "e">>)}
      [] k = "api_slug" -> {EmptyStr, PStr(<<"m", "y", "_", "s", "l", "u", "g">>)}
      [] k = "entry_values" -> {PDict([stage |-> Lit("Lead")])}
      [] k = "relationship" -> {PDict([object |-> Lit("people")])}
      [] k = "limit" -> {PInt(5)}
      [] k \in {"record_id", "parent_record_id", "linked_record_id"} -> {Lit("r1")}
      [] k = "list_id" -> {Lit("sales")}
      [] k = "entry_id" -> {Lit("e1")}
      [] k = "note_id" -> {Lit("n1")}
      [] k = "task_id" -> {Lit("t1")}
      [] k = "query" -> {Lit("acme")}
      [] k = "attribute" -> {Lit("stage")}
      [] k = "matching_attribute" -> {Lit("domains")}
      [] k = "target" -> {Lit("objects")}
      [] k = "type" -> {Lit("text")}
      [] k = "workspace_access" -> {Lit("read-only")}
      [] k = "default_currency_code" -> {Lit("USD")}
      [] k = "config" ->
            {PDict(EmptyDict),
             PDict([currency |-> PDict([display_type |-> Lit("symbol")])])}
      [] k \in {"is_archived", "is_multiselect", "is_status"} -> {PBool(TRUE)}
      [] k = "is_completed" -> {PBool(TRUE), PBool(FALSE)}
      [] k = "content" -> {PStr(<<"C", "a", "l", "l">>)}
      [] k = "deadline_at" ->
            {EmptyStr, PStr(<<"2", "0", "2", "5", "-", "0", "1", "-", "0", "2">>),
             PStr(<<"2", "0", "2", "5", "-", "0", "1", "-", "0", "2", "T", "0", "9",
                    ":", "0", "0", "Z">>)}
      [] k = "linked_records" ->
            {PList(<<PDict([target_object |-> Lit("people"),
                            target_record_id |-> Lit("r1")])>>)}
      [] k = "assignees" ->
            {PList(<<PDict([referenced_actor_type |-> Lit("workspace-member"),
                            referenced_actor_id |-> Lit("m1")])>>)}
      [] OTHER -> {}

RECURSIVE ObjectsOver(_)
\* the argument objects that give exactly the properties D
ObjectsOver(D) ==
    IF D = {} THEN {EmptyDict}
    ELSE LET k == CHOOSE x \in D : TRUE
         IN  {(k :> v) @@ f : v \in ArgValues(k), f \in ObjectsOver(D \ {k})}

\* the argument objects over the properties of a tool
Objects(props) == UNION {ObjectsOver(D) : D \in SUBSET props}

\* payloads that are not objects
NonObjects == {PNone, PList(<<>>), Lit("query")}

ToolNames == {ALL_TOOLS[i].name : i \in 1..Len(ALL_TOOLS)}

Declared(n) == CHOOSE tool \in {ALL_TOOLS[i] : i \in 1..Len(ALL_TOOLS)} : tool.name = n

\* names no module declares
UnknownNames == {"merge_records", "", "Search_Records"}

\* the properties a handler reads that its input schema does not declare:
\* args.get("config") in _create_attribute
Undeclared(n) == IF n = "create_attribute" THEN {"config"} ELSE {}

Payloads(n) ==
    IF n \in ToolNames
    THEN {PDict(f) : f \in Objects(Declared(n).properties \cup Undeclared(n))}
         \cup NonObjects
    ELSE {PDict(EmptyDict), PDict([query |-> Lit("acme")])} \cup NonObjects

Record(rid, values) ==
    PDict([id |-> PDict([record_id |-> Lit(rid)]), values |-> PDict(values)])

SampleRecords ==
    {Record("r1", [name |-> PList(<<PDict([value |-> Lit("Acme")])>>),
                   domains |-> PList(<<PDict([domain |-> Lit("acme.com")])>>)]),
     Record("r2", [stage |-> PList(<<PDict([status |-> PDict([title |-> Lit("Won")])])>>)])}

Entry(eid, fields, values) ==
    PDict([id |-> PDict([entry_id |-> Lit(eid)]), entry_values |-> PDict(values)]
          @@ fields)

\* list entries: two parents of one object, a parent of another object, an entry
\* without parent object, and a second entry of the first parent
SampleEntries ==
    {Entry("e1", [parent_object |-> PStr(Companies), parent_record_id |-> Lit("r1")],
           [stage |-> PList(<<PDict([status |-> PDict([title |-> Lit("Lead")])])>>)]),
     Entry("e2", [parent_object |-> PStr(Companies), parent_record_id |-> Lit("r2")],
           EmptyDict),
     Entry("e3", [parent_object |-> PStr(People), parent_record_id |-> Lit("r3")],
           [owner |-> PList(<<PDict([value |-> Lit("m1")])>>)]),
     Entry("e4", [parent_record_id |-> Lit("r4")], EmptyDict),
     Entry("e5", [parent_object |-> PStr(Companies), parent_record_id |-> Lit("r1")],
           EmptyDict)}

\* the pages of the entries query: every entry at most once
EntryPages ==
    UNION {{es \in [1..n -> SampleEntries] : \A i, j \in 1..n : i # j => es[i] # es[j]} :
           n \in 0..MaxEntries}

Ok(body) == HttpResponse(200, body)
Data(x) == Ok(PDict([data |-> x]))

\* the answers of the remote service to the request of tool n that succeed
Successes(n) ==
    CASE n \in {"get_record", "create_or_update_record", "update_record"} ->
            {Data(r) : r \in SampleRecords}
      [] n \in {"search_records", "query_records"} ->
            {Data(PList(<<>>))}
                \cup {Data(PList(<<r, s>>)) : r \in SampleRecords, s \in SampleRecords}
      [] n = "list_record_entries" ->
            {Data(PList(<<>>)),
             Data(PList(<<PDict([list_id |-> Lit("sales"), entry_id |-> Lit("e1")])>>))}
      [] n = "get_attribute_history" ->
            {Data(PList(<<>>)),
             Data(PList(<<PDict([status |-> PDict([title |-> Lit("Won")]),
                                 active_from |-> Lit("2025-02-01"),
                                 active_until |-> PNone]),
                          PDict([status |-> PDict([title |-> Lit("Lead")]),
                                 active_from |-> Lit("2025-01-01"),
                                 active_until |-> Lit("2025-02-01")])>>))}
      [] n = "list_lists" ->
            {Data(PList(<<>>)),
             Data(PList(<<PDict([id |-> PDict([list_id |-> Lit("l1")]),
                                 name |-> Lit("Sales"), api_slug |-> Lit("sales"),
                                 parent_object |-> PList(<<PStr(Companies)>>)])>>))}
      [] n \in {"create_list", "archive_list"} ->
            {Data(PDict([id |-> PDict([list_id |-> Lit("l1")]),
                         name |-> Lit("Sales"), api_slug |-> Lit("sales")])),
             Data(PDict(EmptyDict))}
      [] n = "query_list_entries" -> {Data(PList(es)) : es \in EntryPages}
      [] n = "create_or_update_entry" ->
            {Data(PDict([id |-> PDict([entry_id |-> Lit("e1")])]))}
      [] n = "list_attributes" ->
            {Data(PList(<<>>)),
             Data(PList(<<PDict([api_slug |-> Lit("stage"), type |-> Lit("status"),
                                 title |-> Lit("Stage"), is_system |-> PBool(TRUE),
                                 is_writable |-> PBool(FALSE)])>>))}
      [] n = "create_attribute" ->
            {Data(PDict([title |-> Lit("Deal-Size"), api_slug |-> Lit("deal_size")]))}
      [] n = "list_select_options" ->
            {Data(PList(<<>>)),
             Data(PList(<<PDict([title |-> Lit("Lead"),
                                 id |-> PDict([option_id |-> Lit("o1")])])>>))}
      [] n = "create_select_option" ->
            {Data(PDict([id |-> PDict([status_id |-> Lit("s1")])]))}
      [] n = "create_note" -> {Data(PDict([id |-> PDict([note_id |-> Lit("n1")])]))}
      [] n = "list_notes" ->
            {Data(PList(<<>>)),
             Data(PList(<<PDict([title |-> Lit("Call"),
                                 content_plaintext |-> PStr(<<"h", "i">>),
                                 created_at |-> PStr(<<"2", "0", "2", "5">>)])>>))}
      [] n \in {"create_task", "update_task"} ->
            {Data(PDict([id |-> PDict([task_id |-> Lit("t1")]),
                         content_plaintext |-> PStr(<<"C", "a", "l", "l">>)]))}
      [] n = "list_tasks" ->
            {Data(PList(<<>>)),
             Data(PList(<<PDict([id |-> PDict([task_id |-> Lit("t1")]),
                                 content_plaintext |-> Lit("Call"),
                                 is_completed |-> PBool(TRUE)])>>))}
      [] OTHER -> {Ok(PDict(EmptyDict))}

\* the answers that fail, carry no object, or are no answer at all
Failures ==
    {HttpResponse(404, PDict([message |-> Lit("Not found")])),
     HttpResponse(400, PDict([error |-> Lit("Bad request"),
                              validation_errors |->
                                  PList(<<PDict([path |-> PList(<<Lit("data"), Lit("name")>>),
                                                 message |-> Lit("Required")])>>)])),
     HttpResponse(500, NotJson),
     HttpResponse(302, NotJson),
     HttpResponse(204, NotJson),
     Ok(PList(<<>>)),
     TransportError}

Responses(n) == Successes(n) \cup Failures

\* the answers to the lookup of a parent record
LookupResponses ==
    {Data(Record("r", [name |-> PList(<<PDict([value |-> Lit("Acme")])>>)])),
     Data(Record("r", EmptyDict)),
     HttpResponse(404, PDict([message |-> Lit("Not found")]))}

(***************************************************************************)
(* server.py: one invocation at a time, from call_tool's entry to its      *)
(* return, the remote service answering each request in between            *)
(***************************************************************************)
Init ==
    /\ ServerIdle
    /\ pc = "idle"
    /\ name = ""
    /\ input = PNone
    /\ output = NotRun

\* call_tool ends with the handler's outcome: return [TextContent(...)], or the
\* except clause, or the exception leaves call_tool
Finish(outcome) ==
    /\ output' = outcome
    /\ IF outcome.kind = "raise" /\ ~Catches(outcome.exc)
       THEN pc' = "raised" /\ results' = <<>>
       ELSE pc' = "done" /\ results' = Returned(outcome)

\* call_tool(n, payload), up to the handler's first remote call
Invoke(n, payload) ==
    /\ pc = "idle"
    /\ name' = n
    /\ input' = payload
    /\ arguments' = ArgumentsAfter(HANDLERS, n, Coerced(payload))
    /\ UNCHANGED <<HANDLERS, answers, entries, by_object, names>>
    /\ \E first \in {call_tool(HANDLERS, n, Coerced(payload).v)} :
         IF first.kind = "call"
         THEN /\ calls' = <<first.req>>
              /\ pc' = "await"
              /\ UNCHANGED <<output, results>>
         ELSE /\ calls' = <<>>
              /\ Finish(first)

CallTool == \E n \in ToolNames \cup UnknownNames : \E payload \in Payloads(n) : Invoke(n, payload)

\* a handler other than _query_entries goes on from its remote call to its return
Continue(got) ==
    /\ \E outcome \in {handle_return(name, arguments.v, got)} : Finish(outcome)
    /\ UNCHANGED <<calls, entries, by_object, names>>

\* a _query_entries that looks a parent up whatever the entries query gave
ContinueQueryEntries_lookupAnyway(got) ==
    /\ entries' = <<>>
    /\ by_object' = AppendToGroup(<<>>, PStr(Companies), Lit("r1"))
    /\ names' = EmptyDict
    /\ calls' = Append(calls, LookupRequest([obj |-> PStr(Companies), rid |-> Lit("r1")]))
    /\ pc' = "lookup"
    /\ UNCHANGED <<output, results>>

\* _query_entries goes on from the entries query: to its return when the query
\* failed or returned no entry, else through _resolve_parent_names to the first
\* lookup (or to its return when no entry names a parent)
ContinueQueryEntries(got) ==
    IF got.kind = "raise" \/ got.value.t # "dict"
    THEN /\ Finish(IF got.kind = "raise" THEN got ELSE NoAttribute(got.value, "get"))
         /\ UNCHANGED <<calls, entries, by_object, names>>
    ELSE \E page \in {Get(got.value.v, "data", PList(<<>>))} :
           IF ~Truthy(page)
           THEN /\ Finish(_query_entries_empty(arguments.v))
                /\ UNCHANGED <<calls, entries, by_object, names>>
           ELSE \E groups \in {GroupByObject(page.v, EmptyDict, <<>>)} :
                  /\ entries' = page.v
                  /\ by_object' = groups
                  /\ names' = EmptyDict
                  /\ IF groups = <<>>
                     THEN /\ \E outcome \in {_query_entries_return(arguments.v, page.v,
                                                                   EmptyDict)} :
                               Finish(outcome)
                          /\ UNCHANGED calls
                     ELSE /\ calls' = Append(calls, LookupRequest(LookupOrder(groups)[1]))
                          /\ pc' = "lookup"
                          /\ UNCHANGED <<output, results>>

\* the remote service answers the handler's request and the handler goes on
Respond ==
    /\ pc = "await"
    /\ \E resp \in Responses(name) : \E got \in {Gateway(resp)} :
         /\ answers' = Append(answers, got)
         /\ IF name = "query_list_entries" THEN ContinueQueryEntries(got)
            ELSE Continue(got)
    /\ UNCHANGED <<HANDLERS, name, arguments, input>>

\* the remote service answers a lookup of _resolve_parent_names, which goes on
\* to the next lookup, or to the rest of _query_entries
LookupRespond ==
    /\ pc = "lookup"
    /\ \E resp \in LookupResponses : \E got \in {Gateway(resp)} :
       \E order \in {LookupOrder(by_object)} :
       \E resolved \in {ResolveOne(names, order[Len(calls) - 1].rid, got)} :
         /\ answers' = Append(answers, got)
         /\ names' = resolved
         /\ IF Len(calls) - 1 < Len(order)
            THEN /\ calls' = Append(calls, LookupRequest(order[Len(calls)]))
                 /\ UNCHANGED <<pc, output, results>>
            ELSE /\ \E outcome \in {_query_entries_return(arguments.v, entries, resolved)} :
                      Finish(outcome)
                 /\ UNCHANGED calls
    /\ UNCHANGED <<HANDLERS, name, arguments, input, entries, by_object>>

\* the caller has its result; the server waits for the next invocation
Return ==
    /\ pc \in {"done", "raised"}
    /\ pc' = "idle"
    /\ name' = ""
    /\ input' = PNone
    /\ output' = NotRun
    /\ arguments' = PNone
    /\ calls' = <<>>
    /\ answers' = <<>>
    /\ results' = <<>>
    /\ entries' = <<>>
    /\ by_object' = <<>>
    /\ names' = EmptyDict
    /\ UNCHANGED HANDLERS

Next == CallTool \/ Respond \/ LookupRespond \/ Return

Spec == Init /\ [][Next]_vars

(***************************************************************************)
(* The slug derivations of create_list and create_attribute applied to     *)
(* names and titles                                                        *)
(***************************************************************************)
\* the longest name or title
MaxTitleLen == 4

\* a capital, a digit, the two characters create_attribute replaces, a
\* punctuation mark and the underscore
TitleChars == {"A", "7", " ", "-", "!", "_"}

Titles == UNION {[1..n -> TitleChars] : n \in 0..MaxTitleLen}

\* api_slug absent, empty, or given
SlugChoices == {EmptyDict} \cup {[api_slug |-> x] : x \in ArgValues("api_slug")}

SlugPayloads(n) ==
    IF n = "create_list"
    THEN {PDict([name |-> PStr(title)] @@ slug) : title \in Titles, slug \in SlugChoices}
    ELSE {PDict([target |-> Lit("objects"), target_id |-> PStr(Companies),
                 title |-> PStr(title), type |-> Lit("text")] @@ slug) :
             title \in Titles, slug \in SlugChoices}

InitSlug ==
    /\ ServerIdle
    /\ pc = "start"
    /\ output = NotRun
    /\ name \in {"create_list", "create_attribute"}
    /\ input \in SlugPayloads(name)

Apply__create_list ==
    /\ pc = "start" /\ name = "create_list"
    /\ output' = _create_list(input.v)
    /\ pc' = "done"
    /\ UNCHANGED <<HANDLERS, name, arguments, calls, answers, results, entries,
                   by_object, names, input>>

Apply__create_attribute ==
    /\ pc = "start" /\ name = "create_attribute"
    /\ output' = _create_attribute(input.v)
    /\ pc' = "done"
    /\ UNCHANGED <<HANDLERS, name, arguments, calls, answers, results, entries,
                   by_object, names, input>>

NextSlug == Apply__create_list \/ Apply__create_attribute

SpecSlug == InitSlug /\ [][NextSlug]_vars

(***************************************************************************)
(* The deadlines create_task and update_task send                          *)
(***************************************************************************)
\* the longest deadline string a caller gives
MaxDeadlineLen == 4

\* a digit, the separator of a date, the separator "T" of date and time, and
\* the separator of a time
DeadlineChars == {"2", "-", "T", ":"}

Deadlines == UNION {[1..n -> DeadlineChars] : n \in 0..MaxDeadlineLen}

\* deadline_at absent, or given (the empty string included)
DeadlineChoices == {EmptyDict} \cup {[deadline_at |-> PStr(dl)] : dl \in Deadlines}

DeadlinePayloads(n) ==
    IF n = "create_task"
    THEN {PDict([content |-> PStr(<<"C", "a", "l", "l">>)] @@ dl) : dl \in DeadlineChoices}
    ELSE {PDict([task_id |-> Lit("t1")] @@ dl) : dl \in DeadlineChoices}

InitDeadline ==
    /\ ServerIdle
    /\ pc = "start"
    /\ output = NotRun
    /\ name \in {"create_task", "update_task"}
    /\ input \in DeadlinePayloads(name)

Apply__create_task ==
    /\ pc = "start" /\ name = "create_task"
    /\ output' = _create_task(input.v)
    /\ pc' = "done"
    /\ UNCHANGED <<HANDLERS, name, arguments, calls, answers, results, entries,
                   by_object, names, input>>

Apply__update_task ==
    /\ pc = "start" /\ name = "update_task"
    /\ output' = _update_task(input.v)
    /\ pc' = "done"
    /\ UNCHANGED <<HANDLERS, name, arguments, calls, answers, results, entries,
                   by_object, names, input>>

NextDeadline == Apply__create_task \/ Apply__update_task

SpecDeadline == InitDeadline /\ [][NextDeadline]_vars

(***************************************************************************)
(* The five gateway functions on the responses of the remote service       *)
(***************************************************************************)
\* status codes of every class from 2xx to 5xx, the ends of the classes included
StatusCodes == {200, 201, 204, 299, 300, 302, 304, 399, 400, 404, 422, 499, 500, 503}

\* bodies: none that decodes, objects of a success and of a failure, an array
ResponseBodies ==
    {NotJson,
     PDict(EmptyDict),
     PDict([data |-> PDict([name |-> Lit("Acme")])]),
     PDict([message |-> Lit("Not found")]),
     PDict([error |-> Lit("Bad request"),
            validation_errors |->
                PList(<<PDict([path |-> PList(<<Lit("data"), Lit("name")>>),
                               message |-> Lit("Required")])>>)]),
     PList(<<>>)}

GatewayFunctions == {"get", "post", "put", "patch", "delete"}

InitGateway ==
    /\ ServerIdle
    /\ pc = "start"
    /\ output = NotRun
    /\ name \in GatewayFunctions
    /\ input \in {HttpResponse(status, body) : status \in StatusCodes, body \in ResponseBodies}

\* get: the request is sent, and its response goes through _handle_response
Apply_client_get ==
    /\ pc = "start" /\ name = "get"
    /\ output' = _handle_response(input)
    /\ pc' = "done"
    /\ UNCHANGED <<HANDLERS, name, arguments, calls, answers, results, entries,
                   by_object, names, input>>

\* post: the request is sent, and its response goes through _handle_response
Apply_client_post ==
    /\ pc = "start" /\ name = "post"
    /\ output' = _handle_response(input)
    /\ pc' = "done"
    /\ UNCHANGED <<HANDLERS, name, arguments, calls, answers, results, entries,
                   by_object, names, input>>

\* put: the request is sent, and its response goes through _handle_response
Apply_client_put ==
    /\ pc = "start" /\ name = "put"
    /\ output' = _handle_response(input)
    /\ pc' = "done"
    /\ UNCHANGED <<HANDLERS, name, arguments, calls, answers, results, entries,
                   by_object, names, input>>

\* patch: the request is sent, and its response goes through _handle_response
Apply_client_patch ==
    /\ pc = "start" /\ name = "patch"
    /\ output' = _handle_response(input)
    /\ pc' = "done"
    /\ UNCHANGED <<HANDLERS, name, arguments, calls, answers, results, entries,
                   by_object, names, input>>

\* delete: the request is sent, and its response goes through _handle_response
Apply_client_delete ==
    /\ pc = "start" /\ name = "delete"
    /\ output' = _handle_response(input)
    /\ pc' = "done"
    /\ UNCHANGED <<HANDLERS, name, arguments, calls, answers, results, entries,
                   by_object, names, input>>

NextGateway ==
    \/ Apply_client_get
    \/ Apply_client_post
    \/ Apply_client_put
    \/ Apply_client_patch
    \/ Apply_client_delete

SpecGateway == InitGateway /\ [][NextGateway]_vars

(***************************************************************************)
(* list_attributes invoked twice against a remote state that stays as it is *)
(***************************************************************************)
\* call_tool(n, payload) from its first line to its return, when the remote
\* service answers the handler's request with resp
Invocation(registry, n, payload, resp) ==
    LET first == call_tool(registry, n, Coerced(payload).v)
    IN  IF first.kind = "call"
        THEN Returned(handle_return(n, Coerced(payload).v, Gateway(resp)))
        ELSE Returned(first)

\* the arguments of the two invocations, and the answer the remote service
\* gives to the request as long as its state stays as it is
InitTwice ==
    /\ ServerIdle
    /\ pc = "first"
    /\ output = NotRun
    /\ name = "list_attributes"
    /\ input \in [payload : Payloads(name), remote : Responses(name)]

\* the first invocation; its result is kept in output
FirstInvocation ==
    /\ pc = "first"
    /\ output' = Invocation(HANDLERS, name, input.payload, input.remote)
    /\ pc' = "second"
    /\ UNCHANGED <<HANDLERS, name, arguments, calls, answers, results, entries,
                   by_object, names, input>>

\* the second invocation, by the same server; its result is kept in results
SecondInvocation ==
    /\ pc = "second"
    /\ results' = Invocation(HANDLERS, name, input.payload, input.remote)
    /\ pc' = "done"
    /\ UNCHANGED <<HANDLERS, name, arguments, calls, answers, output, entries,
                   by_object, names, input>>

NextTwice == FirstInvocation \/ SecondInvocation

SpecTwice == InitTwice /\ [][NextTwice]_vars

(***************************************************************************)
(* format_record and format_record_short on records and object types       *)
(***************************************************************************)
\* the longest object type a caller gives, apart from the three known ones
MaxTypeLen == 3

\* the letter the header drops, another lower-case letter and a capital
TypeChars == {"s", "a", "D"}

ObjectTypes ==
    UNION {[1..n -> TypeChars] : n \in 0..MaxTypeLen}
        \cup {Companies, People, Deals, <<"w", "i", "d", "g", "e", "t", "s">>}

\* the four attributes format_record_short looks at for a secondary identifier
SecondaryValues(k) ==
    CASE k = "primary_domain" -> PList(<<PDict([domain |-> Lit("p.example")])>>)
      [] k = "domains" -> PList(<<PDict([domain |-> Lit("d.example")])>>)
      [] k = "email_addresses" -> PList(<<PDict([email_address |-> Lit("e@d.example")])>>)
      [] k = "primary_email_address" ->
            PList(<<PDict([email_address |-> Lit("p@d.example")])>>)

\* an attribute is absent, holds a value that extracts to "", or holds its value
SecondaryChoices(k) ==
    {EmptyDict, k :> PList(<<PDict([domain |-> EmptyStr])>>), k :> SecondaryValues(k)}

NameChoices == {EmptyDict, [name |-> PList(<<PDict([value |-> Lit("Acme")])>>)]}

ShortRecords ==
    {Record("r1", nm @@ a @@ b @@ c @@ d) :
        nm \in NameChoices,
        a \in SecondaryChoices("primary_domain"),
        b \in SecondaryChoices("domains"),
        c \in SecondaryChoices("email_addresses"),
        d \in SecondaryChoices("primary_email_address")}

\* the most attributes a record of AttributeRecords carries
MaxAttributes == 3

\* the three attributes of the name, an attribute the body skips besides them,
\* and three that it may show
RecordKeys == {"name", "full_name", "first_name", "record_id", "stage", "contact", "domains"}

\* the value of attribute k: one that extracts to a text (a record reference
\* for contact), or one that extracts to ""
AttributeValue(k, filled) ==
    IF ~filled THEN PList(<<PDict([value |-> EmptyStr])>>)
    ELSE CASE k = "name" -> PList(<<PDict([value |-> Lit("Acme")])>>)
           [] k = "full_name" -> PList(<<PDict([full_name |-> Lit("Ada Byron")])>>)
           [] k = "first_name" -> PList(<<PDict([value |-> Lit("Ada")])>>)
           [] k = "record_id" -> PList(<<PDict([value |-> Lit("r1")])>>)
           [] k = "stage" -> PList(<<PDict([status |-> PDict([title |-> Lit("Won")])])>>)
           [] k = "contact" -> PList(<<PDict([target_record_id |-> Lit("r7")])>>)
           [] k = "domains" -> PList(<<PDict([domain |-> Lit("d.example")]),
                                        PDict([domain |-> Lit("e.example")])>>)
           [] OTHER -> PList(<<PDict([value |-> Lit("v1")])>>)

\* the orders in which a mapping can hold up to MaxAttributes of the attributes
KeyOrders ==
    UNION {{o \in [1..n -> RecordKeys] : \A i, j \in 1..n : i # j => o[i] # o[j]} :
           n \in 0..MaxAttributes}

\* a record whose values hold the attributes of order, in that order
AttributeRecord(order, filled) ==
    PDict([id |-> PDict([record_id |-> Lit("r1")]),
           values |-> PODict([k \in Range(order) |-> AttributeValue(k, k \in filled)],
                             order)])

AttributeRecords ==
    {AttributeRecord(order, filled) : order \in KeyOrders, filled \in SUBSET RecordKeys}

\* how many entry values an entry holds at most
MaxEntryValues == 2

\* the four attributes an entry line leaves out, and two that it may show
EntryKeys == {"entry_id", "owner", "created_by", "created_at", "stage", "contact"}

EntryOrders ==
    UNION {{o \in [1..n -> EntryKeys] : \A i, j \in 1..n : i # j => o[i] # o[j]} :
           n \in 0..MaxEntryValues}

\* an entry without a parent record id, with an empty one, and with r1
ParentChoices ==
    {EmptyDict, [parent_record_id |-> EmptyStr], [parent_record_id |-> Lit("r1")]}

\* an entry of a list: its parent, if any, and its values in the order of order
ListEntry(parent, order, filled) ==
    PDict(parent @@ [entry_values |->
                        PODict([k \in Range(order) |-> AttributeValue(k, k \in filled)],
                               order)])

ListEntries ==
    {ListEntry(parent, order, filled) :
        parent \in ParentChoices, order \in EntryOrders, filled \in SUBSET EntryKeys}

\* the mapping of the lookups: empty, r1 with a name, r1 with an empty name,
\* and another record only
RecordNames ==
    {[k \in {} |-> EmptyStr], [k \in {<<"r1">>} |-> Lit("Acme")],
     [k \in {<<"r1">>} |-> EmptyStr], [k \in {<<"r2">>} |-> Lit("Other")]}

\* the positions of an entry in its page: one digit and two
Indices == {1, 12}

InitRecord ==
    /\ ServerIdle
    /\ pc = "start"
    /\ output = NotRun
    /\ \/ /\ name = "format_record"
          /\ input \in [record : SampleRecords, object_type : {PStr(t) : t \in ObjectTypes}]
                       \cup [record : AttributeRecords, object_type : {PStr(Companies)}]
       \/ /\ name = "format_record_short"
          /\ input \in ShortRecords \cup AttributeRecords
       \/ /\ name = "format_list_entry"
          /\ input \in [entry : ListEntries, index : Indices, record_names : RecordNames]

Apply_format_record ==
    /\ pc = "start" /\ name = "format_record"
    /\ output' = format_record(input.record.v, input.object_type)
    /\ pc' = "done"
    /\ UNCHANGED <<HANDLERS, name, arguments, calls, answers, results, entries,
                   by_object, names, input>>

Apply_format_record_short ==
    /\ pc = "start" /\ name = "format_record_short"
    /\ output' = format_record_short(input.v)
    /\ pc' = "done"
    /\ UNCHANGED <<HANDLERS, name, arguments, calls, answers, results, entries,
                   by_object, names, input>>

Apply_format_list_entry ==
    /\ pc = "start" /\ name = "format_list_entry"
    /\ output' = format_list_entry(input.entry.v, input.index, input.record_names)
    /\ pc' = "done"
    /\ UNCHANGED <<HANDLERS, name, arguments, calls, answers, results, entries,
                   by_object, names, input>>

NextRecord == Apply_format_record \/ Apply_format_record_short \/ Apply_format_list_entry

SpecRecord == InitRecord /\ [][NextRecord]_vars

(***************************************************************************)
(* server.py and tools_lists.py: two invocations of call_tool that         *)
(* overlap. Each has its own locals (the i-th component of every variable  *)
(* but HANDLERS, the one module-level object call_tool reads); the remote  *)
(* service answers their requests in any order                             *)
(***************************************************************************)
\* names = {} at the head of _resolve_parent_names: a new mapping, whatever
\* mapping held another invocation has built
StartNames_kept(held) == held

StartNames(held) == EmptyDict

\* the locals of the i-th invocation
FrameOf(i) ==
    [pc |-> pc[i], name |-> name[i], arguments |-> arguments[i], calls |-> calls[i],
     answers |-> answers[i], output |-> output[i], entries |-> entries[i],
     by_object |-> by_object[i], names |-> names[i]]

\* the invocation ends with outcome
Ended(f, outcome) ==
    [f EXCEPT !.pc = IF outcome.kind = "raise" /\ ~Catches(outcome.exc)
                     THEN "raised" ELSE "done",
              !.output = outcome]

\* the invocation issues req and waits for its answer
Asked(f, req, at) == [f EXCEPT !.pc = at, !.calls = Append(@, req)]

\* call_tool(n, payload) up to the handler's first remote call, first being
\* what the handler does first
Entered(n, payload, first) ==
    IF first.kind = "call"
    THEN [pc |-> "await", name |-> n, arguments |-> Coerced(payload),
          calls |-> <<first.req>>, answers |-> <<>>, output |-> NotRun,
          entries |-> <<>>, by_object |-> <<>>, names |-> EmptyDict]
    ELSE Ended([pc |-> "idle", name |-> n, arguments |-> Coerced(payload),
                calls |-> <<>>, answers |-> <<>>, output |-> NotRun,
                entries |-> <<>>, by_object |-> <<>>, names |-> EmptyDict], first)

\* _resolve_parent_names after its first loop: the first lookup, or the rest
\* of _query_entries when there is none
Grouped(f, page, groups, start) ==
    IF groups = <<>>
    THEN Ended([f EXCEPT !.entries = page, !.names = start],
               _query_entries_return(f.arguments.v, page, start))
    ELSE Asked([f EXCEPT !.entries = page, !.by_object = groups, !.names = start],
               LookupRequest(LookupOrder(groups)[1]), "lookup")

\* _query_entries from entries = data.get("data", []) on
QueriedPage(f, page, start) ==
    IF ~Truthy(page) THEN Ended(f, _query_entries_empty(f.arguments.v))
    ELSE Grouped(f, page.v, GroupByObject(page.v, start, <<>>), start)

\* _resolve_parent_names after one lookup: the next lookup, or the rest of
\* _query_entries
LookedUpOne(f, order, resolved) ==
    IF Len(f.calls) - 1 < Len(order)
    THEN Asked([f EXCEPT !.names = resolved], LookupRequest(order[Len(f.calls)]), "lookup")
    ELSE Ended([f EXCEPT !.names = resolved],
               _query_entries_return(f.arguments.v, f.entries, resolved))

\* the invocation goes on from the answer got to its outstanding request
Answered(f, got, held) ==
    IF f.pc = "lookup"
    THEN LookedUpOne([f EXCEPT !.answers = Append(@, got)], LookupOrder(f.by_object),
                     ResolveOne(f.names, LookupOrder(f.by_object)[Len(f.calls) - 1].rid,
                                got))
    ELSE IF f.name # "query_list_entries"
    THEN Ended([f EXCEPT !.answers = Append(@, got)],
               handle_return(f.name, f.arguments.v, got))
    ELSE IF got.kind = "raise" THEN Ended([f EXCEPT !.answers = Append(@, got)], got)
    ELSE IF got.value.t # "dict"
    THEN Ended([f EXCEPT !.answers = Append(@, got)], NoAttribute(got.value, "get"))
    ELSE QueriedPage([f EXCEPT !.answers = Append(@, got)],
                     Get(got.value.v, "data", PList(<<>>)), StartNames(held))

\* the tools the two invocations call, and a name no module declares
OverlapTools == {"query_list_entries", "get_record", "merge_records"}

OverlapPayloads(n) ==
    CASE n = "query_list_entries" -> {PDict([list_id |-> Lit("sales")])}
      [] n = "get_record" -> {PDict([object |-> PStr(Companies), record_id |-> Lit("r1")])}
      [] OTHER -> {PNone}

OverlapEntries ==
    {e \in SampleEntries : e.v["id"].v["entry_id"] \in {Lit("e1"), Lit("e2"), Lit("e5")}}

\* the pages of the entries query: none, one entry, two entries of one parent,
\* two entries of two parents
OverlapPages ==
    {<<>>}
    \cup {<<e>> : e \in {x \in OverlapEntries : x.v["id"].v["entry_id"] = Lit("e1")}}
    \cup {<<e, x>> : e \in {y \in OverlapEntries : y.v["id"].v["entry_id"] = Lit("e1")},
                     x \in {y \in OverlapEntries : y.v["id"].v["entry_id"] # Lit("e1")}}

\* the answers to the request of tool n
OverlapResponses(n) ==
    (IF n = "query_list_entries" THEN {Data(PList(es)) : es \in OverlapPages}
     ELSE {Data(r) : r \in SampleRecords})
    \cup {HttpResponse(404, PDict([message |-> Lit("Not found")])), TransportError}

InitOverlap ==
    /\ HANDLERS = ModuleHandlers
    /\ pc = <<"idle", "idle">>
    /\ name = <<"", "">>
    /\ input = <<PNone, PNone>>
    /\ arguments = <<PNone, PNone>>
    /\ calls = << <<>>, <<>> >>
    /\ answers = << <<>>, <<>> >>
    /\ output = <<NotRun, NotRun>>
    /\ entries = << <<>>, <<>> >>
    /\ by_object = << <<>>, <<>> >>
    /\ names = <<EmptyDict, EmptyDict>>
    /\ results = <<>>

\* the i-th invocation's locals become f; nothing else changes
Store(i, f) ==
    /\ pc' = [pc EXCEPT ![i] = f.pc]
    /\ name' = [name EXCEPT ![i] = f.name]
    /\ arguments' = [arguments EXCEPT ![i] = f.arguments]
    /\ calls' = [calls EXCEPT ![i] = f.calls]
    /\ answers' = [answers EXCEPT ![i] = f.answers]
    /\ output' = [output EXCEPT ![i] = f.output]
    /\ entries' = [entries EXCEPT ![i] = f.entries]
    /\ by_object' = [by_object EXCEPT ![i] = f.by_object]
    /\ names' = [names EXCEPT ![i] = f.names]
    /\ UNCHANGED <<HANDLERS, results>>

\* call_tool is entered for the i-th invocation
CallToolOverlapped ==
    \E i \in 1..2 :
      /\ pc[i] = "idle"
      /\ \E n \in OverlapTools : \E payload \in OverlapPayloads(n) :
         \E f \in {Entered(n, payload, call_tool(HANDLERS, n, Coerced(payload).v))} :
           /\ Store(i, f)
           /\ input' = [input EXCEPT ![i] = payload]

\* the remote service answers the outstanding request of the i-th invocation
RespondOverlapped ==
    \E i \in 1..2 :
      /\ pc[i] \in {"await", "lookup"}
      /\ \E resp \in (IF pc[i] = "lookup" THEN LookupResponses
                      ELSE OverlapResponses(name[i])) :
         \E f \in {Answered(FrameOf(i), Gateway(resp), names[3 - i])} :
           /\ Store(i, f)
           /\ UNCHANGED input

NextOverlap == CallToolOverlapped \/ RespondOverlapped

SpecOverlap == InitOverlap /\ [][NextOverlap]_vars

(***************************************************************************)
(* C5, C6: extract_value                                                   *)
(***************************************************************************)
\* the variants of a field value, in the priority order of the specification
Variants ==
    <<"display_value", "full_name", "value", "email_address", "domain",
      "phone_number", "option", "status", "currency", "date", "record-ref">>

\* the field that carries a variant
VariantField(k) ==
    CASE k = "currency" -> "currency_value"
      [] k = "record-ref" -> "target_record_id"
      [] OTHER -> k

\* a value object carries a variant when the variant's field is present and not
\* null (an option, a status and a record reference: present and not empty)
VariantMatches(k, val) ==
    /\ VariantField(k) \in DOMAIN val
    /\ val[VariantField(k)] # PNone
    /\ k \in {"option", "status", "record-ref"} =>
           val[VariantField(k)] \notin {EmptyStr, PDict(EmptyDict)}

\* an option or a status is a mapping with a title; every other variant is a scalar
VariantWellShaped(k, val) ==
    k \in {"option", "status"} =>
        val[k].t = "dict" /\ "title" \in DOMAIN val[k].v

\* the display text of one variant of a value object
VariantText(k, val) ==
    CASE k \in {"option", "status"} -> val[k].v["title"].v
      [] k = "currency" ->
            (IF "currency_code" \in DOMAIN val THEN val["currency_code"].v ELSE <<>>)
                \o <<" ">> \o PyStr(val["currency_value"])
      [] k = "record-ref" -> <<"[record:">> \o val["target_record_id"].v \o <<"]">>
      [] OTHER -> PyStr(val[k])

MatchingVariants(val) == {i \in 1..Len(Variants) : VariantMatches(Variants[i], val)}

\* C5: extract_value returns the text of the first variant, in the priority order
\* display_value > full_name > value > email_address > domain > phone_number >
\* option > status > currency > date > record-ref, that the value object carries
\* (whatever other variants it carries as well), and "" when it carries none.
ExtractPriority ==
    (name = "extract_value" /\ pc = "done") =>
        LET val == input.v
            m == MatchingVariants(val)
        IN  IF m = {} THEN output = Ret(EmptyStr)
            ELSE VariantWellShaped(Variants[Min(m)], val) =>
                     output = Ret(PStr(VariantText(Variants[Min(m)], val)))

\* C5 witness: a value object with a display_value and an email_address that
\* differ was extracted to its display_value
ExtractPriorityWitness ==
    /\ name = "extract_value" /\ pc = "done"
    /\ {"display_value", "email_address"} \subseteq DOMAIN input.v
    /\ input.v["display_value"] = Lit("a")
    /\ input.v["email_address"] = Lit("b")
    /\ output = Ret(Lit("a"))

\* C6: extract_value never raises, and a value object of an unrecognized shape
\* (none of its variants is well shaped) yields "".
ExtractTotal ==
    (name = "extract_value" /\ pc = "done") =>
        /\ output.kind = "return"
        /\ (\A i \in MatchingVariants(input.v) :
                ~VariantWellShaped(Variants[i], input.v)) => output = Ret(EmptyStr)

(***************************************************************************)
(* C7: extract_values                                                      *)
(***************************************************************************)
\* an extraction that is removed from the join: "" (or no text at all)
EmptyExtraction(e) == e.value \in {EmptyStr, PNone}

RECURSIVE JoinedExtractions(_)
\* the non-empty extractions of the elements, in order, with ", " between them
JoinedExtractions(vs) ==
    IF vs = <<>> THEN <<>>
    ELSE LET e == extract_value(Head(vs).v)
             rest == JoinedExtractions(Tail(vs))
         IN  IF EmptyExtraction(e) THEN rest
             ELSE IF rest = <<>> THEN e.value.v
             ELSE e.value.v \o <<", ">> \o rest

\* C7: extract_values equals the extract_value results of the elements (those
\* that extract_value returns), in order, the empty ones removed, joined by ", ";
\* an empty sequence, or one with no non-empty extraction, gives "".
ExtractValuesJoin ==
    (name = "extract_values" /\ pc = "done") =>
        IF input = PNone THEN output = Ret(EmptyStr)
        ELSE (\A i \in 1..Len(input.v) : extract_value(input.v[i].v).kind = "return")
                 => output = Ret(PStr(JoinedExtractions(input.v)))

\* C7 witness: the values "a", "", "b" were joined to "a, b"
ExtractValuesJoinWitness ==
    /\ name = "extract_values" /\ pc = "done"
    /\ input = PList(<<PDict([value |-> Lit("a")]), PDict([value |-> EmptyStr]),
                       PDict([value |-> Lit("b")])>>)
    /\ output = Ret(PStr(<<"a", ", ", "b">>))

(***************************************************************************)
(* C1, C2: what call_tool gives back                                       *)
(***************************************************************************)
\* C1: for every tool name and every payload, call_tool returns exactly one
\* text result and no exception leaves it; a payload that is not an object is
\* handled as the empty argument object; and whenever the handler failed, the
\* one result is text that begins with "Error: "
OneTextResult ==
    /\ pc # "raised"
    /\ (pc # "idle" /\ input.t # "dict") => arguments = PDict(EmptyDict)
    /\ pc = "done" =>
          /\ Len(results) = 1
          /\ results[1].type = "text"
          /\ output.kind = "raise" => StartsWith(results[1].text, <<"Error: ">>)

\* a registered tool, given a payload that is no object, has failed on its
\* first missing argument and the caller holds the one error text
OneTextResultWitness ==
    /\ pc = "done"
    /\ name = "get_record"
    /\ input = PNone
    /\ output.kind = "raise" /\ output.exc = "KeyError"
    /\ results = <<TextContent(<<"Error: ", "'", "object", "'">>)>>

\* C2: a tool name that is not in the registry gives text that begins with
\* "Error: " and no remote call is issued, whatever the payload
UnknownToolNoCall ==
    (pc # "idle" /\ name \notin DOMAIN HANDLERS) =>
        /\ pc = "done"
        /\ calls = <<>>
        /\ Len(results) = 1
        /\ StartsWith(results[1].text, <<"Error: ", "Unknown tool: ">>)

\* an unknown name was dispatched with arguments another tool would accept
UnknownToolNoCallWitness ==
    /\ pc = "done"
    /\ name = "merge_records"
    /\ input = PDict([query |-> Lit("acme")])
    /\ calls = <<>>
    /\ results = <<TextContent(<<"Error: ", "Unknown tool: ", "merge_records">>)>>

(***************************************************************************)
(* C3: required arguments                                                  *)
(***************************************************************************)
\* C3: when an argument that the tool's input schema lists as required is
\* missing, the invocation fails and no remote call is issued
RequiredArgumentsChecked ==
    (pc # "idle" /\ name \in ToolNames
        /\ Declared(name).required \ DOMAIN arguments.v # {}) =>
            /\ pc = "done"
            /\ calls = <<>>
            /\ output.kind = "raise"

(***************************************************************************)
(* C4: the registry                                                        *)
(***************************************************************************)
\* the tool surface as the specification enumerates it
ToolSurface ==
    [records |-> {"search_records", "get_record", "create_or_update_record",
                  "update_record", "list_record_entries", "query_records",
                  "get_attribute_history", "delete_record"},
     lists |-> {"list_lists", "create_list", "query_list_entries",
                "create_or_update_entry", "delete_entry", "archive_list"},
     schema |-> {"list_attributes", "create_attribute", "list_select_options",
                 "create_select_option"},
     notes |-> {"create_note", "list_notes", "delete_note"},
     tasks |-> {"create_task", "list_tasks", "update_task"}]

\* the names a group's module declares
DeclaredBy(group) ==
    LET tools == CASE group = "records" -> tools_records_TOOLS
                   [] group = "lists" -> tools_lists_TOOLS
                   [] group = "schema" -> tools_schema_TOOLS
                   [] group = "notes" -> tools_notes_TOOLS
                   [] group = "tasks" -> tools_tasks_TOOLS
    IN  {tools[i].name : i \in 1..Len(tools)}

\* C4: the registry's names are exactly the names of the tool surface, no name
\* is declared by two groups, every name is routed to the group that declares
\* it, and that group's handle has a branch for it: an invocation of a
\* registered name never ends in a group's "Unknown ... tool" failure
RegistryIsToolSurface ==
    /\ DOMAIN HANDLERS = UNION {ToolSurface[g] : g \in DOMAIN ToolSurface}
    /\ \A g \in DOMAIN ToolSurface : DeclaredBy(g) = ToolSurface[g]
    /\ \A g, h \in DOMAIN ToolSurface : g # h => DeclaredBy(g) \cap DeclaredBy(h) = {}
    /\ \A i, j \in 1..Len(ALL_TOOLS) : i # j => ALL_TOOLS[i].name # ALL_TOOLS[j].name
    /\ \A n \in DOMAIN HANDLERS : n \in DeclaredBy(HANDLERS[n]) /\ n \in Branches(HANDLERS[n])
    /\ (pc # "idle" /\ name \in DOMAIN HANDLERS /\ output.kind = "raise") =>
          ~(output.exc = "ValueError" /\ Head(output.msg) = "Unknown ")

\* a tool of the last registered group was routed to its handler and returned
RegistryIsToolSurfaceWitness ==
    /\ pc = "done"
    /\ name = "update_task"
    /\ HANDLERS[name] = "tasks"
    /\ Len(calls) = 1
    /\ output.kind = "return"

(***************************************************************************)
(* C8: query_list_entries when lookups fail                                *)
(***************************************************************************)
\* entry i of the page names a parent object and a parent record: it is looked up
LookedUp(i) ==
    /\ Truthy(Get(entries[i].v, "parent_object", EmptyStr))
    /\ Truthy(Get(entries[i].v, "parent_record_id", EmptyStr))

RECURSIVE LookupsBefore(_)
\* the number of lookups of the groups before the g-th
LookupsBefore(g) ==
    IF g = 1 THEN 0 ELSE LookupsBefore(g - 1) + Len(by_object[g - 1].rids)

\* the position of the lookup of entry i among the lookups
LookupIndex(i) ==
    LET obj == entries[i].v["parent_object"]
        g == CHOOSE h \in 1..Len(by_object) : by_object[h].obj = obj
    IN  LookupsBefore(g)
            + Cardinality({j \in 1..i : LookedUp(j) /\ entries[j].v["parent_object"] = obj})

\* the lookup of entry i failed (the answer to the entries query is answers[1])
LookupFailed(i) == LookedUp(i) /\ answers[1 + LookupIndex(i)].kind = "raise"

RECURSIVE SplitLines(_, _)
\* text.split("\n")
SplitLines(text, cur) ==
    IF text = <<>> THEN <<cur>>
    ELSE IF Head(text) = "\n" THEN <<cur>> \o SplitLines(Tail(text), <<>>)
    ELSE SplitLines(Tail(text), Append(cur, Head(text)))

\* C8: when the entries query returned entries, query_list_entries succeeds
\* whatever the lookups did, its output has one line for every entry after the
\* heading, and the line of every entry whose lookup failed shows the raw
\* parent record id
FailedLookupShowsRawId ==
    (pc = "done" /\ name = "query_list_entries" /\ entries # <<>>) =>
        /\ output.kind = "return"
        /\ LET lines == SplitLines(results[1].text, <<>>)
           IN  /\ Len(lines) = 1 + Len(entries)
               /\ \A i \in 1..Len(entries) :
                     LookupFailed(i) =>
                        StartsWith(lines[i + 1],
                                   DecimalDigits(i) \o <<". ">>
                                       \o entries[i].v["parent_record_id"].v)

(***************************************************************************)
(* C9, C10: slugs                                                          *)
(***************************************************************************)
RECURSIVE AlnumRuns(_, _)
\* the maximal runs of lower-case letters and digits of s, in order
AlnumRuns(s, cur) ==
    LET done == IF cur = <<>> THEN <<>> ELSE <<cur>>
    IN  IF s = <<>> THEN done
        ELSE IF Head(s) \in Range(Lowers) \cup Range(Digits)
             THEN AlnumRuns(Tail(s), Append(cur, Head(s)))
        ELSE done \o AlnumRuns(Tail(s), <<>>)

\* lower-case, every run of other characters one underscore, none at the ends
DerivedSlug(title) == JoinSeqs(<<"_">>, AlnumRuns(Lower(title), <<>>))

\* the api_slug of the request body
SentSlug == output.req.json.v["data"].v["api_slug"]

\* C9: create_list sends the given api_slug unchanged when one is given and
\* not empty, and otherwise the slug derived from the name: lower-cased, every
\* run of non-alphanumeric characters one underscore, no underscore at the ends
ListSlugDerived ==
    (pc = "done" /\ name = "create_list") =>
        /\ output.kind = "call"
        /\ SentSlug = IF Truthy(Get(input.v, "api_slug", EmptyStr))
                      THEN input.v["api_slug"]
                      ELSE PStr(DerivedSlug(input.v["name"].v))

\* a name with a capital and a run of two other characters before a digit
ListSlugDerivedWitness ==
    /\ pc = "done"
    /\ name = "create_list"
    /\ input = PDict([name |-> PStr(<<"A", " ", "-", "7">>)])
    /\ SentSlug = PStr(<<"a", "_", "7">>)

\* C10: create_attribute without an api_slug sends the slug derived from the
\* title in the same way as create_list derives it from the name
AttributeSlugDerived ==
    (pc = "done" /\ name = "create_attribute") =>
        /\ output.kind = "call"
        /\ SentSlug = IF Truthy(Get(input.v, "api_slug", EmptyStr))
                      THEN input.v["api_slug"]
                      ELSE PStr(DerivedSlug(input.v["title"].v))

(***************************************************************************)
(* C11, C12: deadlines                                                     *)
(***************************************************************************)
\* the characters of dl before its first "T", all of dl when it has none
DatePortion(dl) ==
    LET cut == {k \in 0..Len(dl) : /\ \A i \in 1..k : dl[i] # "T"
                                   /\ k = Len(dl) \/ dl[k + 1] = "T"}
    IN  SubSeq(dl, 1, CHOOSE k \in cut : TRUE)

\* the data of the request body
SentData == output.req.json.v["data"].v

\* what the claims say of the deadline sent for the deadline given
DeadlineAsClaimed ==
    /\ output.kind = "call"
    /\ IF Truthy(Get(input.v, "deadline_at", EmptyStr))
       THEN /\ "deadline_at" \in DOMAIN SentData
            /\ SentData["deadline_at"] = PStr(DatePortion(input.v["deadline_at"].v))
       ELSE "deadline_at" \notin DOMAIN SentData

\* C11: create_task sends as deadline_at the part of the deadline before its
\* first "T", the whole deadline when it holds no "T", and no deadline_at
\* when the deadline is absent or empty
CreateTaskDeadlineDateOnly ==
    (pc = "done" /\ name = "create_task") => DeadlineAsClaimed

\* a deadline with two separators is cut at the first
CreateTaskDeadlineDateOnlyWitness ==
    /\ pc = "done"
    /\ name = "create_task"
    /\ Get(input.v, "deadline_at", EmptyStr) = PStr(<<"2", "T", ":", "T">>)
    /\ SentData["deadline_at"] = Lit("2")

\* C12: update_task sends a given deadline that holds a "T" cut to the part
\* before its first "T", as create_task does
UpdateTaskDeadlineDateOnly ==
    (/\ pc = "done"
     /\ name = "update_task"
     /\ "T" \in Range(Get(input.v, "deadline_at", EmptyStr).v)) =>
        /\ output.kind = "call"
        /\ "deadline_at" \in DOMAIN SentData
        /\ SentData["deadline_at"] = PStr(DatePortion(input.v["deadline_at"].v))

(***************************************************************************)
(* C13: the gateway functions by status code                               *)
(***************************************************************************)
\* the message names the status code
CarriesStatus(msg, status) ==
    \E i \in 1..Len(msg) :
        /\ i + Len(DecimalDigits(status)) - 1 <= Len(msg)
        /\ SubSeq(msg, i, i + Len(DecimalDigits(status)) - 1) = DecimalDigits(status)

\* a response of the 2xx class
IsSuccessStatus(status) == status >= 200 /\ status <= 299

\* C13: a gateway function returns the decoded object of a 2xx response (the
\* empty object for 204) and fails with a remote error that carries the
\* status code for every response that is not 2xx, the 3xx ones included
GatewayByStatus ==
    (pc = "done" /\ name \in GatewayFunctions) =>
        IF IsSuccessStatus(input.status_code)
        THEN \/ input.status_code = 204 /\ output = Ret(PDict(EmptyDict))
             \/ input.status_code # 204 /\ input.body.t = "dict"
                    /\ output = Ret(input.body)
             \/ input.status_code # 204 /\ input.body.t # "dict"
        ELSE /\ output.kind = "raise"
             /\ output.exc = "RuntimeError"
             /\ CarriesStatus(output.msg, input.status_code)

WithDeclaredDefaults(n, args) == args @@ Declared(n).defaults

\* the invocation went as call_tool goes for the arguments full: the same
\* failure before any request or the same first request, and the same result
\* once the remote service has answered
WentAsWith(full) ==
    /\ IF calls = <<>>
       THEN /\ call_tool(HANDLERS, name, full).kind # "call"
            /\ pc = "done" => results = Returned(call_tool(HANDLERS, name, full))
       ELSE /\ call_tool(HANDLERS, name, full).kind = "call"
            /\ call_tool(HANDLERS, name, full).req = calls[1]
    /\ (pc = "done" /\ calls # <<>> /\ name # "query_list_entries") =>
            results = Returned(handle_return(name, full, answers[1]))
    /\ (pc = "done" /\ Len(calls) > 1 /\ name = "query_list_entries") =>
            results = Returned(_query_entries_return(full, entries, names))

\* C15: an invocation that leaves out properties with a declared default goes
\* as the invocation that gives each of them its declared default
DeclaredDefaultsApplied ==
    (name \in ToolNames /\ pc \in {"await", "lookup", "done"}) =>
        WentAsWith(WithDeclaredDefaults(name, arguments.v))

\* archive_list without is_archived has archived the list
DeclaredDefaultsAppliedWitness ==
    /\ pc = "done"
    /\ name = "archive_list"
    /\ DOMAIN arguments.v = {"list_id"}
    /\ calls = <<client_patch(<<"/lists/", "sales">>,
                              PDict([data |-> PDict([is_archived |-> PBool(TRUE)])]))>>
    /\ StartsWith(results[1].text, <<"Archived", " list: ">>)

(***************************************************************************)
(* C16, C17: the header of format_record, the line of format_record_short  *)
(***************************************************************************)
\* the object type without its last character if that is an "s", and with its
\* first character upper-cased
StrippedAndCapitalized(t) ==
    LET stem == IF t # <<>> /\ t[Len(t)] = "s" THEN SubSeq(t, 1, Len(t) - 1) ELSE t
    IN  [i \in 1..Len(stem) |-> IF i = 1 THEN UpperChar(stem[i]) ELSE stem[i]]

\* the header the claim gives for an object type
ClaimedHeader(t) ==
    CASE t = Companies -> <<"C", "o", "m", "p", "a", "n", "y">>
      [] t = People -> <<"P", "e", "r", "s", "o", "n">>
      [] t = Deals -> <<"D", "e", "a", "l">>
      [] OTHER -> StrippedAndCapitalized(t)

\* C16: the first line of format_record begins with Company, Person or Deal
\* for companies, people and deals, and for any other object type that is not
\* empty with the type without its trailing "s", capitalized
HeaderSingularized ==
    (pc = "done" /\ name = "format_record" /\ input.object_type.v # <<>>) =>
        /\ output.kind = "return"
        /\ StartsWith(output.value.v, ClaimedHeader(input.object_type.v) \o <<": ">>)

\* the attributes of the secondary identifier whose extraction is not empty
SecondaryKeys == <<"primary_domain", "domains", "email_addresses", "primary_email_address">>

NonEmptySecondaries(values) ==
    {i \in 1..Len(SecondaryKeys) :
        /\ SecondaryKeys[i] \in DOMAIN values
        /\ extract_values(values[SecondaryKeys[i]]) # Ret(EmptyStr)}

\* the attributes of the name, in the order of their priority
NameKeys == <<"name", "full_name", "first_name">>

NonEmptyNames(values) ==
    {i \in 1..Len(NameKeys) :
        /\ NameKeys[i] \in DOMAIN values
        /\ extract_values(values[NameKeys[i]]) # Ret(EmptyStr)}

\* the name the claims give for the values of a record
ClaimedName(values) ==
    IF NonEmptyNames(values) = {} THEN <<"(unnamed)">>
    ELSE extract_values(values[NameKeys[Min(NonEmptyNames(values))]]).value.v

\* the line the claim gives for a record
ClaimedShortLine(record) ==
    LET values == record["values"].v
        found == NonEmptySecondaries(values)
    IN  ClaimedName(values)
        \o (IF found = {} THEN <<>>
            ELSE <<" ", "(">>
                     \o extract_values(values[SecondaryKeys[Min(found)]]).value.v
                     \o <<")">>)
        \o <<" ", EmDash, " ID: ">> \o record["id"].v["record_id"].v

\* C17: format_record_short gives the name or "(unnamed)", the first extraction
\* that is not empty among primary_domain, domains, email_addresses and
\* primary_email_address in parentheses, left out when there is none, and the id
ShortLineSecondary ==
    (pc = "done" /\ name = "format_record_short") =>
        output = Ret(PStr(ClaimedShortLine(input.v)))

\* primary_domain extracts to "", so the domain of domains is shown, not an email
ShortLineSecondaryWitness ==
    /\ pc = "done"
    /\ name = "format_record_short"
    /\ DOMAIN input.v["values"].v = {"primary_domain", "domains", "email_addresses"}
    /\ NonEmptySecondaries(input.v["values"].v) = {2, 3}
    /\ output = Ret(PStr(<<"(unnamed)", " ", "(", "d.example", ")", " ", EmDash,
                           " ID: ", "r1">>))

(***************************************************************************)
(* C18: one lookup per parent record                                       *)
(***************************************************************************)
\* the parent records the entries of the page name, each once
DistinctParents ==
    {[obj |-> entries[i].v["parent_object"], rid |-> entries[i].v["parent_record_id"]] :
        i \in {j \in 1..Len(entries) : LookedUp(j)}}

\* the lookups issued so far: every request after the entries query
LookupsIssued == [i \in 1..(Len(calls) - 1) |-> calls[i + 1]]

\* C18: query_list_entries looks a parent record up once however many entries
\* of the page name it: no lookup is issued twice, and when the invocation is
\* done the lookups are those of the distinct parent records of the page
OneLookupPerParent ==
    (name = "query_list_entries" /\ pc \in {"lookup", "done"} /\ entries # <<>>) =>
        /\ \A i, j \in 1..Len(LookupsIssued) :
               i < j => LookupsIssued[i] # LookupsIssued[j]
        /\ pc = "done" =>
               Range(LookupsIssued) = {LookupRequest(p) : p \in DistinctParents}

(***************************************************************************)
(* C19: no retries                                                         *)
(***************************************************************************)
\* the first remote call of the invocation failed
FirstCallFailed == answers # <<>> /\ answers[1].kind = "raise"

\* C19: no request of an invocation is issued twice, and when the first
\* remote call fails (the parent lookups of query_list_entries are never the
\* first) the invocation is over with that one call and an "Error: " text
NoRetry ==
    (name \in ToolNames /\ pc \in {"await", "lookup", "done"}) =>
        /\ \A i, j \in 1..Len(calls) : i < j => calls[i] # calls[j]
        /\ FirstCallFailed =>
               /\ pc = "done"
               /\ Len(calls) = 1
               /\ Len(results) = 1
               /\ StartsWith(results[1].text, <<"Error: ">>)

(***************************************************************************)
(* C20: the filter of search_records                                       *)
(***************************************************************************)
\* attribute contains query
ContainsQuery(attr, query) == PDict(attr :> PDict("$contains" :> query))

\* the first condition or the second
EitherOf(first, second) == PDict("$or" :> PList(<<first, second>>))

\* the filter the claim gives for an object type
ClaimedFilter(object_type, query) ==
    CASE object_type = PStr(People) ->
            EitherOf(ContainsQuery("name", query), ContainsQuery("email_addresses", query))
      [] object_type = PStr(Companies) ->
            EitherOf(ContainsQuery("name", query), ContainsQuery("domains", query))
      [] OTHER -> ContainsQuery("name", query)

\* the object type search_records queries
SearchedType == Get(arguments.v, "object", PStr(Companies))

\* C20: search_records with a query issues one query request, whose filter is
\* name or email_addresses contains the query for people, name or domains
\* contains it for companies, and name contains it for any other object type
SearchFilterByType ==
    (/\ name = "search_records"
     /\ pc \in {"await", "done"}
     /\ "query" \in DOMAIN arguments.v) =>
        /\ Len(calls) = 1
        /\ calls[1].method = "POST"
        /\ calls[1].path = <<"/objects/">> \o SearchedType.v \o <<"/records/query">>
        /\ calls[1].json.v["filter"] = ClaimedFilter(SearchedType, arguments.v["query"])

\* a search of people has been answered
SearchFilterByTypeWitness ==
    /\ name = "search_records"
    /\ pc = "done"
    /\ arguments = PDict([query |-> Lit("acme"), object |-> PStr(People)])
    /\ Len(calls) = 1
    /\ calls[1].json.v["filter"] =
           EitherOf(ContainsQuery("name", Lit("acme")),
                    ContainsQuery("email_addresses", Lit("acme")))

(***************************************************************************)
(* C21: the values of a write                                              *)
(***************************************************************************)
\* the values mapping of the request body
SentValues == calls[1].json.v["data"].v["values"]

Holds(text, part) ==
    \E i \in 0..(Len(text) - Len(part)) : SubSeq(text, i + 1, i + Len(part)) = part

\* the record formatted, and the first line of the text
FormattedRecord == IF name = "format_record" THEN input.record.v ELSE input.v

FirstLine == SplitLines(output.value.v, <<>>)[1]

\* C22: format_record and format_record_short show the first extraction that
\* is not empty among name, full_name and first_name, in that order, and
\* "(unnamed)" when there is none
NameByPriority ==
    (pc = "done" /\ name \in {"format_record", "format_record_short"}) =>
        /\ output.kind = "return"
        /\ IF name = "format_record"
           THEN Holds(FirstLine, <<": ">> \o ClaimedName(FormattedRecord["values"].v)
                                     \o <<" (ID: ">>)
           ELSE \/ StartsWith(FirstLine, ClaimedName(FormattedRecord["values"].v)
                                             \o <<" ", EmDash>>)
                \/ StartsWith(FirstLine, ClaimedName(FormattedRecord["values"].v)
                                             \o <<" ", "(">>)

\* name is there but extracts to "", first_name comes first in the mapping,
\* and full_name is shown
NameByPriorityWitness ==
    /\ pc = "done"
    /\ name = "format_record"
    /\ input.record.v["values"].o = <<"first_name", "name", "full_name">>
    /\ NonEmptyNames(input.record.v["values"].v) = {2, 3}
    /\ StartsWith(FirstLine, <<"C", "o", "m", "p", "a", "n", "y", ": ", "Ada Byron",
                                " (ID: ">>)

(***************************************************************************)
(* C23: the body of format_record                                          *)
(***************************************************************************)
\* the joined extraction of attribute k
Extraction(values, k) == extract_values(values[k]).value.v

\* the extraction is a text that does not begin with the mark of a record reference
Displayable(text) == text # <<>> /\ text[1] # "[record:"

RECURSIVE DisplayedKeys(_, _, _)
\* the keys of order, in order, that are not skipped and have a displayable extraction
DisplayedKeys(values, order, skipped) ==
    IF order = <<>> THEN <<>>
    ELSE (IF Head(order) \notin skipped /\ Displayable(Extraction(values, Head(order)))
          THEN <<Head(order)>> ELSE <<>>)
         \o DisplayedKeys(values, Tail(order), skipped)

\* text ends with part
EndsWith(text, part) ==
    Len(text) >= Len(part) /\ SubSeq(text, Len(text) - Len(part) + 1, Len(text)) = part

\* the lines of the text after the first
BodyLines == Tail(SplitLines(output.value.v, <<>>))

\* the attributes the body shows, in the order of the mapping
BodyKeys ==
    DisplayedKeys(input.record.v["values"].v, input.record.v["values"].o,
                  {"name", "full_name", "record_id"})

\* C23: after its first line format_record has one line for every attribute
\* other than name, full_name and record_id whose joined extraction is neither
\* empty nor begins with "[record:", in the order of the mapping, and no other
BodyLinePerAttribute ==
    (pc = "done" /\ name = "format_record") =>
        /\ output.kind = "return"
        /\ Len(BodyLines) = Len(BodyKeys)
        /\ \A i \in 1..Len(BodyKeys) :
               EndsWith(BodyLines[i],
                        <<": ">> \o Extraction(input.record.v["values"].v, BodyKeys[i]))

\* domains, a record reference and a stage: two lines, domains first
BodyLinePerAttributeWitness ==
    /\ pc = "done"
    /\ name = "format_record"
    /\ input.record.v["values"].o = <<"domains", "contact", "stage">>
    /\ BodyKeys = <<"domains", "stage">>
    /\ Len(BodyLines) = 2
    /\ EndsWith(BodyLines[1], <<": ", "d.example", ", ", "e.example">>)
    /\ EndsWith(BodyLines[2], <<": ", "Won">>)

(***************************************************************************)
(* C24: the line of a list entry                                           *)
(***************************************************************************)
\* the parent record id of the entry, "" when it has none
RawParentId == Get(input.entry.v, "parent_record_id", EmptyStr).v

\* the lookup mapping holds a non-empty name for the parent record id
HoldsNameOfParent ==
    /\ RawParentId \in DOMAIN input.record_names
    /\ input.record_names[RawParentId].v # <<>>

RECURSIVE ClaimedParts(_, _)
\* " <dash> <Label>: <value>" for each key of keys
ClaimedParts(values, keys) ==
    IF keys = <<>> THEN <<>>
    ELSE <<" ", EmDash, " ">> \o Label(Head(keys)) \o <<": ">>
         \o Extraction(values, Head(keys)) \o ClaimedParts(values, Tail(keys))

\* the entry values the line shows, in the order of the mapping
EntryShownKeys ==
    DisplayedKeys(input.entry.v["entry_values"].v, input.entry.v["entry_values"].o,
                  {"entry_id", "owner", "created_by", "created_at"})

ClaimedEntryLine ==
    DecimalDigits(input.index) \o <<". ">>
    \o (IF HoldsNameOfParent THEN input.record_names[RawParentId].v ELSE RawParentId)
    \o ClaimedParts(input.entry.v["entry_values"].v, EntryShownKeys)

\* C24: format_list_entry returns "<index>. ", then the name the lookup
\* mapping holds for the parent record id when that name is not empty and the
\* raw parent record id otherwise, then one "<Label>: <value>" part for every
\* entry value other than entry_id, owner, created_by and created_at whose
\* extraction is neither empty nor a record reference
EntryLineAsClaimed ==
    (pc = "done" /\ name = "format_list_entry") =>
        output = Ret(PStr(ClaimedEntryLine))

\* entry 12 of the page, its parent resolved, with an owner and a stage
EntryLineAsClaimedWitness ==
    /\ pc = "done"
    /\ name = "format_list_entry"
    /\ input.index = 12
    /\ HoldsNameOfParent
    /\ input.entry.v["entry_values"].o = <<"owner", "stage">>
    /\ EntryShownKeys = <<"stage">>
    /\ output = Ret(PStr(<<"1", "2", ". ", "Acme", " ", EmDash, " ", "S", "t", "a", "g", "e",
                           ": ", "Won">>))

(***************************************************************************)
(* C25: overlapping invocations                                            *)
(***************************************************************************)
RECURSIVE RunAlone(_, _)
\* the invocation f goes on alone through the answers gots
RunAlone(f, gots) ==
    IF gots = <<>> \/ f.pc \notin {"await", "lookup"} THEN f
    ELSE RunAlone(Answered(f, Head(gots), EmptyDict), Tail(gots))

\* call_tool(n, payload) run alone against the answers gots
Alone(n, payload, gots) ==
    RunAlone(Entered(n, payload, call_tool(ModuleHandlers, n, Coerced(payload).v)), gots)

\* the i-th invocation has ended as it ends alone against the answers it got
EndedAsAlone(i) ==
    /\ Alone(name[i], input[i], answers[i]).pc = pc[i]
    /\ Alone(name[i], input[i], answers[i]).output = output[i]
    /\ Alone(name[i], input[i], answers[i]).calls = calls[i]

\* C25: however the remote calls of two overlapping invocations interleave,
\* each invocation ends with the result it has when it runs alone against the
\* answers it got, and no step writes the dispatch registry
OverlappingInvocationsIndependent ==
    /\ [](\A i \in 1..2 : pc[i] \in {"done", "raised"} => EndedAsAlone(i))
    /\ [][HANDLERS' = HANDLERS]_vars

\* both invocations queried the entries of a list and looked r1 up; the lookup
\* of the first gave a name, the lookup of the second failed
OverlappingInvocationsIndependentWitness ==
    /\ pc = <<"done", "done">>
    /\ name = <<"query_list_entries", "query_list_entries">>
    /\ Len(calls[1]) = 2 /\ Len(calls[2]) = 2
    /\ names[1] = [k \in {<<"r1">>} |-> Lit("Acme")]
    /\ names[2] = [k \in {<<"r1">>} |-> Lit("r1")]
    /\ output[1] # output[2]

(***************************************************************************)
(* C26: the argument object after the invocation                           *)
(***************************************************************************)
\* C26: when an invocation has ended, the argument object the caller passed
\* is as the caller passed it, its nested objects included
ArgumentsUnmodified ==
    (pc \in {"done", "raised"} /\ input.t = "dict") => arguments = input

\* for every tool but create_attribute the argument object is as it was passed
ArgumentsUnmodifiedElsewhere ==
    (pc \in {"done", "raised"} /\ input.t = "dict" /\ name # "create_attribute")
        => arguments = input

\* create_attribute leaves the argument object as it was passed unless it got
\* both a non-empty config and a default_currency_code
ArgumentsUnmodifiedWithoutCurrency ==
    (/\ pc \in {"done", "raised"} /\ input.t = "dict" /\ name = "create_attribute"
     /\ ~(/\ Truthy(Get(input.v, "config", PNone))
          /\ Truthy(Get(input.v, "default_currency_code", PNone))))
        => arguments = input

\* create_or_update_record has ended and the values the caller passed are unchanged
ValuesUnmodifiedReached ==
    /\ pc = "done"
    /\ name = "create_or_update_record"
    /\ input.t = "dict"
    /\ "values" \in DOMAIN input.v
    /\ arguments = input

(***************************************************************************)
(* C27: a resolved name stays                                              *)
(***************************************************************************)
\* the ids a successful lookup has mapped to a display name: the except
\* clause maps an id to itself
ResolvedIds == {k \in DOMAIN names : names[k].v # k}

\* every resolved id keeps its name in the step
NamesKept == \A k \in ResolvedIds : k \in DOMAIN names' /\ names'[k] = names[k]

\* the lookup that is being answered was issued before in this invocation
AnsweredLookupIsRepeat == \E i \in 2..(Len(calls) - 1) : calls[i] = calls[Len(calls)]

\* C27: while _resolve_parent_names runs, an id that a successful lookup has
\* mapped to a display name keeps that name: the answer to a later lookup,
\* failed or not, does not replace it
ResolvedNameKept == [][pc = "lookup" => NamesKept]_vars

\* the answer to a lookup that was not issued before replaces no resolved name
ResolvedNameKeptUnlessRepeated ==
    [][(pc = "lookup" /\ ~AnsweredLookupIsRepeat) => NamesKept]_vars

(***************************************************************************)
(* C28: the entries query comes first                                      *)
(***************************************************************************)
\* POST /lists/<list_id>/entries/query
IsEntriesQuery(req) ==
    /\ req.method = "POST"
    /\ StartsWith(req.path, <<"/lists/">>)
    /\ EndsWith(req.path, <<"/entries/query">>)

\* GET /objects/<obj>/records/<rid>
IsLookup(req) == req.method = "GET" /\ StartsWith(req.path, <<"/objects/">>)

\* the entries query succeeded and its page holds at least one entry
QueryGaveEntries ==
    /\ answers # <<>>
    /\ answers[1].kind = "return"
    /\ answers[1].value.t = "dict"
    /\ Truthy(Get(answers[1].value.v, "data", PList(<<>>)))

\* C28: the first remote call of query_list_entries is the entries query and
\* every later one is a lookup of a parent record; a lookup is issued only
\* when the entries query succeeded with at least one entry; and when the
\* entries query failed or gave no entry the invocation is over with that one
\* call
EntriesQueryFirst ==
    (name = "query_list_entries" /\ pc \in {"await", "lookup", "done"}) =>
        /\ calls # <<>> => IsEntriesQuery(calls[1])
        /\ \A i \in 2..Len(calls) : IsLookup(calls[i])
        /\ Len(calls) > 1 => QueryGaveEntries
        /\ (answers # <<>> /\ ~QueryGaveEntries) =>
               pc = "done" /\ Len(calls) = 1 /\ Len(answers) = 1

\* the entries query was answered with an empty page: one call, no lookup
EntriesQueryFirstWitness ==
    /\ name = "query_list_entries"
    /\ pc = "done"
    /\ Len(answers) = 1
    /\ answers[1].kind = "return"
    /\ ~QueryGaveEntries
    /\ Len(calls) = 1
    /\ IsEntriesQuery(calls[1])

\* the entries query gave two entries and both parents were looked up after it
LookupsAfterEntriesReached ==
    /\ name = "query_list_entries"
    /\ pc = "done"
    /\ QueryGaveEntries
    /\ Len(calls) = 3
    /\ IsEntriesQuery(calls[1]) /\ IsLookup(calls[2]) /\ IsLookup(calls[3])

====
